---- MODULE Spec2Model ----
(***************************************************************************)
(* Shadow-EVM core: the account / state-store model, canonical hashing and *)
(* the commitment scheme, and the execution orchestrator.                  *)
(*                                                                         *)
(* Modelling conventions                                                   *)
(*  - A BTreeMap is a sequence of <<key, value>> pairs kept strictly       *)
(*    sorted by key; bincode serialises it as its length followed by the   *)
(*    entries in iteration (= sequence) order.                             *)
(*  - A byte string produced by bincode is a sequence of tokens, one token *)
(*    per fixed-width scalar (u64, U256, Address, B256); variable-length   *)
(*    containers are length-prefixed, Options are tag-prefixed.            *)
(*  - keccak256 is collision-free: the digest of d is the term             *)
(*    <<"keccak", d>>.  A raw 32-byte constant B256::repeat_byte(n) is     *)
(*    the term <<"b256", n>>.                                              *)
(*  - Option<T>: None is <<>>, Some(v) is <<v>>.                           *)
(***************************************************************************)
EXTENDS Integers, Sequences, FiniteSets, TLC

\* ------------------------------------------------------------------ bounds
\* Largest U256 value used for balances and storage values.
MaxVal == 2
\* Number of storage slots that are written.
NumSlots == 2
\* Number of addresses.
NumAddr == 2
\* Raw hash constants B256::repeat_byte(0..MaxHashByte).
MaxHashByte == 2
\* Small gas amounts 0..MaxGas.
MaxGas == 5
\* Number of fields in which the two Inputs' block and transaction parts differ.
MaxDiff == 1
\* Number of values of the unsigned gas word (2^20 in place of 2^64).
GasWord == 1048576

Values == 0..MaxVal
Slots == 1..NumSlots
Addresses == 1..NumAddr
CodePool == {<<>>, <<96>>, <<96, 243>>}

None == <<>>
Some(v) == <<v>>
IsSome(o) == Len(o) = 1
Unwrap(o) == o[1]

\* ----------------------------------------------------------------- hashing
keccak256(data) == <<"keccak", data>>

B256_repeat_byte(n) == <<"b256", n>>

Hash_ZERO == B256_repeat_byte(0)

KECCAK_EMPTY == keccak256(<<>>)

\* ---------------------------------------------------------------- BTreeMap
BTreeContains(m, k) == \E i \in 1..Len(m) : m[i][1] = k

BTreeGet(m, k) ==
    IF BTreeContains(m, k)
    THEN Some(m[CHOOSE i \in 1..Len(m) : m[i][1] = k][2])
    ELSE None

\* An insertion-ordered map (a Vec of pairs / an index map): a new key goes last.
AppendInsert(m, k, v) ==
    IF BTreeContains(m, k)
    THEN [i \in 1..Len(m) |-> IF m[i][1] = k THEN <<k, v>> ELSE m[i]]
    ELSE Append(m, <<k, v>>)

BTreeInsert(m, k, v) ==
    IF BTreeContains(m, k)
    THEN [i \in 1..Len(m) |-> IF m[i][1] = k THEN <<k, v>> ELSE m[i]]
    ELSE LET pos == Cardinality({i \in 1..Len(m) : m[i][1] < k})
         IN  SubSeq(m, 1, pos) \o <<<<k, v>>>> \o SubSeq(m, pos + 1, Len(m))

BTreeRemove(m, k) == SelectSeq(m, LAMBDA e : e[1] # k)

BTreeKeys(m) == {m[i][1] : i \in 1..Len(m)}

\* The mapping a BTreeMap holds, forgetting its layout.
BTreeAsMap(m) == [k \in BTreeKeys(m) |-> Unwrap(BTreeGet(m, k))]

\* Every BTreeMap over the keys 1..n with values in vals (what a caller can pass).
RECURSIVE BTreeMapsOver(_, _)
BTreeMapsOver(n, vals) ==
    IF n = 0 THEN {<<>>}
    ELSE LET rest == BTreeMapsOver(n - 1, vals)
         IN  rest \cup {Append(m, <<n, v>>) : m \in rest, v \in vals}

\* ----------------------------------------------------------------- bincode
SerBytes(b) == <<Len(b)>> \o b

RECURSIVE SerEntriesU256(_)
SerEntriesU256(m) ==
    IF m = <<>> THEN <<>>
    ELSE <<Head(m)[1], Head(m)[2]>> \o SerEntriesU256(Tail(m))

\* BTreeMap<U256, U256>
SerStorage(m) == <<Len(m)>> \o SerEntriesU256(m)

SerAccountState(a) ==
    <<a.balance, a.nonce, a.code_hash>> \o SerBytes(a.code) \o SerStorage(a.storage)

\* ------------------------------------------------------------ AccountState
AccountState_default ==
    [balance |-> 0, nonce |-> 0, code_hash |-> Hash_ZERO, code |-> <<>>,
     storage |-> <<>>]

new_with_balance(balance) ==
    [balance |-> balance, nonce |-> 0, code_hash |-> KECCAK_EMPTY, code |-> <<>>,
     storage |-> <<>>]

new_contract(code, balance) ==
    [balance |-> balance, nonce |-> 1, code_hash |-> keccak256(code), code |-> code,
     storage |-> <<>>]

new_contract_with_storage(code, balance, storage) ==
    [balance |-> balance, nonce |-> 1, code_hash |-> keccak256(code), code |-> code,
     storage |-> storage]

\* set_storage without the zero branch: a zero is stored like any value.
set_storage_keep_zero(a, slot, value) ==
    [a EXCEPT !.storage = BTreeInsert(a.storage, slot, value)]

set_storage(a, slot, value) ==
    IF value = 0
    THEN [a EXCEPT !.storage = BTreeRemove(a.storage, slot)]
    ELSE [a EXCEPT !.storage = BTreeInsert(a.storage, slot, value)]

get_storage(a, slot) ==
    IF IsSome(BTreeGet(a.storage, slot)) THEN Unwrap(BTreeGet(a.storage, slot)) ELSE 0

is_empty(a) == a.balance = 0 /\ a.nonce = 0 /\ a.code = <<>>

hash_account(a) == keccak256(SerAccountState(a))

\* -------------------------------------------------------------- InMemoryDB
RECURSIVE SerEntriesAccounts(_)
SerEntriesAccounts(m) ==
    IF m = <<>> THEN <<>>
    ELSE <<Head(m)[1]>> \o SerAccountState(Head(m)[2]) \o SerEntriesAccounts(Tail(m))

\* BTreeMap<Address, AccountState>
SerAccounts(m) == <<Len(m)>> \o SerEntriesAccounts(m)

\* BTreeMap<u64, Hash>
SerBlockHashes(m) == <<Len(m)>> \o SerEntriesU256(m)

SerInMemoryDB(db) == SerAccounts(db.accounts) \o SerBlockHashes(db.block_hashes)

InMemoryDB_new == [accounts |-> <<>>, block_hashes |-> <<>>]

insert_account(db, address, account) ==
    [db EXCEPT !.accounts = BTreeInsert(db.accounts, address, account)]

get_account(db, address) == BTreeGet(db.accounts, address)

remove_account(db, address) ==
    [db EXCEPT !.accounts = BTreeRemove(db.accounts, address)]

account_exists(db, address) == BTreeContains(db.accounts, address)

insert_block_hash(db, number, hash) ==
    [db EXCEPT !.block_hashes = BTreeInsert(db.block_hashes, number, hash)]

\* A root over the whole store, recorded block hashes included.
compute_state_root_whole_store(db) == keccak256(SerInMemoryDB(db))

compute_state_root(db) == keccak256(SerAccounts(db.accounts))

RECURSIVE MergeEntries(_, _)
MergeEntries(accounts, other) ==
    IF other = <<>> THEN accounts
    ELSE MergeEntries(BTreeInsert(accounts, Head(other)[1], Head(other)[2]), Tail(other))

\* A merge in which the receiving store's record survives a key collision.
merge_keep_existing(db, other) ==
    [db EXCEPT !.accounts = MergeEntries(other.accounts, db.accounts)]

merge(db, other) == [db EXCEPT !.accounts = MergeEntries(db.accounts, other.accounts)]

\* ----------------------------------------------------------- input model
SerOption(o) == IF o = None THEN <<0>> ELSE <<1, Unwrap(o)>>

BlockEnv_default ==
    [number |-> 1, timestamp |-> 1700000000, gas_limit |-> 30000000,
     coinbase |-> 0, base_fee |-> 1000000000, prev_randao |-> Hash_ZERO,
     chain_id |-> 1]

TxInput_default ==
    [caller |-> 0, to |-> None, value |-> 0, data |-> <<>>,
     gas_limit |-> 10000000, gas_price |-> 1000000000, nonce |-> 0]

TxInput_transfer(caller, to, value) ==
    [TxInput_default EXCEPT !.caller = caller, !.to = Some(to), !.value = value,
                            !.gas_limit = 21000]

TxInput_create(caller, init_code, value) ==
    [TxInput_default EXCEPT !.caller = caller, !.to = None, !.data = init_code,
                            !.value = value]

is_create(tx) == tx.to = None

\* The block number left out of the encoding (a skipped field).
SerBlockEnv_skip_number(b) ==
    <<b.timestamp, b.gas_limit, b.coinbase, b.base_fee, b.prev_randao, b.chain_id>>

SerBlockEnv(b) ==
    <<b.number, b.timestamp, b.gas_limit, b.coinbase, b.base_fee, b.prev_randao,
      b.chain_id>>

SerTxInput(t) ==
    <<t.caller>> \o SerOption(t.to) \o <<t.value>> \o SerBytes(t.data)
        \o <<t.gas_limit, t.gas_price, t.nonce>>

ExecutionInput_new(block, tx, pre_state) ==
    [block |-> block, tx |-> tx, pre_state |-> pre_state]

SerExecutionInput(i) ==
    SerBlockEnv(i.block) \o SerTxInput(i.tx) \o SerInMemoryDB(i.pre_state)

\* hash_struct of an ExecutionInput
ExecutionInput_hash(i) == keccak256(SerExecutionInput(i))

ExecutionInput_pre_state_root(i) == compute_state_root(i.pre_state)

\* ------------------------------------------------------------ output model
Log_new(address, topics, data) == [address |-> address, topics |-> topics, data |-> data]

ExecutionOutput_success(return_data, gas_used, gas_refunded, logs, post_state) ==
    [status |-> "Success", return_data |-> return_data, gas_used |-> gas_used,
     gas_refunded |-> gas_refunded, logs |-> logs, post_state |-> post_state,
     created_address |-> None]

\* A revert that reports the gas used as refunded as well.
ExecutionOutput_revert_refunding(return_data, gas_used, post_state) ==
    [status |-> "Revert", return_data |-> return_data, gas_used |-> gas_used,
     gas_refunded |-> gas_used, logs |-> <<>>, post_state |-> post_state,
     created_address |-> None]

ExecutionOutput_revert(return_data, gas_used, post_state) ==
    [status |-> "Revert", return_data |-> return_data, gas_used |-> gas_used,
     gas_refunded |-> 0, logs |-> <<>>, post_state |-> post_state,
     created_address |-> None]

ExecutionOutput_halt(gas_used, post_state) ==
    [status |-> "Halt", return_data |-> <<>>, gas_used |-> gas_used,
     gas_refunded |-> 0, logs |-> <<>>, post_state |-> post_state,
     created_address |-> None]

with_created_address(output, address) == [output EXCEPT !.created_address = Some(address)]

\* The variant index bincode writes for ExecutionStatus.
SerStatus(st) ==
    CASE st = "Success" -> <<0>>
      [] st = "Revert" -> <<1>>
      [] st = "Halt" -> <<2>>

SerLog(l) == <<l.address>> \o <<Len(l.topics)>> \o l.topics \o SerBytes(l.data)

RECURSIVE SerLogEntries(_)
SerLogEntries(ls) == IF ls = <<>> THEN <<>> ELSE SerLog(Head(ls)) \o SerLogEntries(Tail(ls))

SerLogs(ls) == <<Len(ls)>> \o SerLogEntries(ls)

SerExecutionOutput(o) ==
    SerStatus(o.status) \o SerBytes(o.return_data) \o <<o.gas_used, o.gas_refunded>>
        \o SerLogs(o.logs) \o SerInMemoryDB(o.post_state) \o SerOption(o.created_address)

\* hash_struct of an ExecutionOutput
ExecutionOutput_hash(o) == keccak256(SerExecutionOutput(o))

ExecutionOutput_post_state_root(o) == compute_state_root(o.post_state)

\* ------------------------------------------------------------- commitments
\* An order-insensitive combination of the two hashes (such as their XOR).
compute_commitment_commutative(input_hash, output_hash) ==
    keccak256(<<{input_hash, output_hash}>>)

\* The 64-byte buffer: two 32-byte blocks, input hash first.
compute_commitment(input_hash, output_hash) == keccak256(<<input_hash, output_hash>>)

\* The binding computed with its two arguments exchanged.
ExecutionCommitment_new_swapped(input_hash, output_hash, pre_state_root, post_state_root) ==
    [input_hash |-> input_hash, output_hash |-> output_hash,
     pre_state_root |-> pre_state_root, post_state_root |-> post_state_root,
     commitment |-> compute_commitment(output_hash, input_hash)]

ExecutionCommitment_new(input_hash, output_hash, pre_state_root, post_state_root) ==
    [input_hash |-> input_hash, output_hash |-> output_hash,
     pre_state_root |-> pre_state_root, post_state_root |-> post_state_root,
     commitment |-> compute_commitment(input_hash, output_hash)]

\* A verification that also insists on both state roots being set.
verify_requiring_roots(c, input_hash, output_hash) ==
    /\ c.input_hash = input_hash
    /\ c.output_hash = output_hash
    /\ c.commitment = compute_commitment(input_hash, output_hash)
    /\ c.pre_state_root # Hash_ZERO
    /\ c.post_state_root # Hash_ZERO

verify(c, input_hash, output_hash) ==
    /\ c.input_hash = input_hash
    /\ c.output_hash = output_hash
    /\ c.commitment = compute_commitment(input_hash, output_hash)

\* --------------------------------------------------------------------- gas
\* Gas is an unsigned machine word; the model's word has GasWord values
\* (TLC's integers are 32-bit, so the 64-bit word is scaled down).
SubU64(a, b) == [value |-> (a - b) % GasWord, underflow |-> a < b]

MinU64(a, b) == IF a <= b THEN a ELSE b

\* The refund subtracted without the cap.
effective_gas_used_uncapped(gas_used, gas_refunded) == SubU64(gas_used, gas_refunded)

effective_gas_used(gas_used, gas_refunded) ==
    LET max_refund == gas_used \div 2
        actual_refund == MinU64(gas_refunded, max_refund)
    IN  SubU64(gas_used, actual_refund)

\* ------------------------------------------------------------ orchestrator
from_execution(input, output) ==
    ExecutionCommitment_new(ExecutionInput_hash(input), ExecutionOutput_hash(output),
                            ExecutionInput_pre_state_root(input), ExecutionOutput_post_state_root(output))

\* Every order in which a HashMap may yield the keys of S.
RECURSIVE OrdersOf(_)
OrdersOf(S) ==
    IF S = {} THEN {<<>>}
    ELSE UNION {{<<k>> \o o : o \in OrdersOf(S \ {k})} : k \in S}

\* for (slot, value) in &account.storage { set_storage(*slot, value.present_value) }
RECURSIVE ApplyStorage(_, _, _)
ApplyStorage(a, storage, order) ==
    IF order = <<>> THEN a
    ELSE ApplyStorage(set_storage(a, Head(order), storage[Head(order)]), storage,
                      Tail(order))

\* One iteration that keeps the accounts in the order the engine yields them
\* (a Vec of entries in place of the BTreeMap).
ApplyAccount_in_arrival_order(db, addr, account, order) ==
    LET base == IF account_exists(db, addr)
                THEN [Unwrap(get_account(db, addr))
                         EXCEPT !.balance = account.info.balance,
                                !.nonce = account.info.nonce]
                ELSE [new_with_balance(account.info.balance)
                         EXCEPT !.nonce = account.info.nonce]
    IN  [db EXCEPT !.accounts =
            Append(BTreeRemove(db.accounts, addr),
                   <<addr, ApplyStorage(base, account.storage, order)>>)]

\* One iteration that updates accounts the store holds and drops the others.
ApplyAccount_existing_only(db, addr, account, order) ==
    IF account_exists(db, addr)
    THEN LET existing == Unwrap(get_account(db, addr))
             updated == [existing EXCEPT !.balance = account.info.balance,
                                         !.nonce = account.info.nonce]
         IN  [db EXCEPT !.accounts =
                 BTreeInsert(db.accounts, addr,
                             ApplyStorage(updated, account.storage, order))]
    ELSE db

\* One iteration that adds the reported balance to the one the store holds.
ApplyAccount_additive(db, addr, account, order) ==
    IF account_exists(db, addr)
    THEN LET existing == Unwrap(get_account(db, addr))
             updated == [existing EXCEPT !.balance = existing.balance + account.info.balance,
                                         !.nonce = account.info.nonce]
         IN  [db EXCEPT !.accounts =
                 BTreeInsert(db.accounts, addr,
                             ApplyStorage(updated, account.storage, order))]
    ELSE LET fresh == [new_with_balance(account.info.balance)
                          EXCEPT !.nonce = account.info.nonce]
             new_acc == IF account.info.code # None
                        THEN [fresh EXCEPT !.code = Unwrap(account.info.code),
                                           !.code_hash = account.info.code_hash]
                        ELSE fresh
         IN  insert_account(db, addr, ApplyStorage(new_acc, account.storage, order))

\* One iteration of apply_state_changes: the engine's account at addr.
\* A reconciliation that prunes: a reported account that ends up empty is
\* removed from the store.
ApplyAccount_pruning(db, addr, account, order) ==
    LET base == IF account_exists(db, addr)
                THEN Unwrap(get_account(db, addr))
                ELSE new_with_balance(0)
        updated == ApplyStorage([base EXCEPT !.balance = account.info.balance,
                                             !.nonce = account.info.nonce],
                                account.storage, order)
    IN  IF is_empty(updated)
        THEN remove_account(db, addr)
        ELSE insert_account(db, addr, updated)

ApplyAccount(db, addr, account, order) ==
    IF account_exists(db, addr)
    THEN LET existing == Unwrap(get_account(db, addr))
             updated == [existing EXCEPT !.balance = account.info.balance,
                                         !.nonce = account.info.nonce]
         IN  [db EXCEPT !.accounts =
                 BTreeInsert(db.accounts, addr,
                             ApplyStorage(updated, account.storage, order))]
    ELSE LET fresh == [new_with_balance(account.info.balance)
                          EXCEPT !.nonce = account.info.nonce]
             new_acc == IF account.info.code # None
                        THEN [fresh EXCEPT !.code = Unwrap(account.info.code),
                                           !.code_hash = account.info.code_hash]
                        ELSE fresh
         IN  insert_account(db, addr, ApplyStorage(new_acc, account.storage, order))

\* apply_state_changes: the stores the loop over result.state (a HashMap, in
\* whatever order it yields the entries of T) can leave.
RECURSIVE ApplyEntries(_, _, _)
ApplyEntries(db, state, T) ==
    IF T = {} THEN {db}
    ELSE UNION {UNION {ApplyEntries(ApplyAccount(db, a, state[a], o), state, T \ {a}) :
                         o \in OrdersOf(DOMAIN state[a].storage)} : a \in T}

\* A reconciliation that keeps the store as it is unless the engine succeeded.
apply_state_changes_on_success(db, result) ==
    IF result.result.kind = "Success"
    THEN ApplyEntries(db, result.state, DOMAIN result.state)
    ELSE {db}

apply_state_changes(db, result) == ApplyEntries(db, result.state, DOMAIN result.state)

\* A conversion that collects the engine's logs newest first.
RECURSIVE convert_logs_reversed(_)
convert_logs_reversed(logs) ==
    IF logs = <<>> THEN <<>>
    ELSE convert_logs_reversed(Tail(logs))
             \o <<Log_new(Head(logs).address, Head(logs).topics, Head(logs).data)>>

RECURSIVE convert_logs(_)
convert_logs(logs) ==
    IF logs = <<>> THEN <<>>
    ELSE <<Log_new(Head(logs).address, Head(logs).topics, Head(logs).data)>>
             \o convert_logs(Tail(logs))

build_output(result, db) ==
    CASE result.kind = "Success" ->
            LET o == ExecutionOutput_success(result.data, result.gas_used,
                                             result.gas_refunded,
                                             convert_logs(result.logs), db)
            IN  IF result.output_kind = "Create" /\ result.address # None
                THEN with_created_address(o, Unwrap(result.address))
                ELSE o
      [] result.kind = "Revert" -> ExecutionOutput_revert(result.data, result.gas_used, db)
      [] result.kind = "Halt" -> ExecutionOutput_halt(result.gas_used, db)

\* The Commitment with the two state roots exchanged.
execute_commitment_roots_swapped(input_hash, pre_root, output) ==
    ExecutionCommitment_new(input_hash, ExecutionOutput_hash(output),
                            ExecutionOutput_post_state_root(output), pre_root)

\* The last step of execute: hash the Output and assemble the Commitment.
execute_commitment(input_hash, pre_root, output) ==
    ExecutionCommitment_new(input_hash, ExecutionOutput_hash(output),
                            pre_root, ExecutionOutput_post_state_root(output))

\* --------------------------------------------------- the external engine
\* What revm's transact() may return is not decided by this repository: the
\* result is any value of its result type, the same for the same Input.
EngineLog1 == [address |-> 2, topics |-> <<B256_repeat_byte(1)>>, data |-> <<7>>]
EngineLog2 == [address |-> 1, topics |-> <<>>, data |-> <<>>]

EngineAccounts ==
    {[info |-> [balance |-> 0, nonce |-> 1, code_hash |-> KECCAK_EMPTY, code |-> None],
      storage |-> <<>>],
     [info |-> [balance |-> 2, nonce |-> 0, code_hash |-> KECCAK_EMPTY, code |-> None],
      storage |-> (1 :> 2) @@ (2 :> 0)],
     [info |-> [balance |-> 1, nonce |-> 1, code_hash |-> keccak256(<<96, 243>>),
                code |-> Some(<<96, 243>>)],
      storage |-> (1 :> 0)]}

EngineStates == UNION {[T -> EngineAccounts] : T \in SUBSET Addresses}

EngineExecutionResults(tx) ==
    IF is_create(tx)
    THEN {[kind |-> "Success", output_kind |-> "Create", data |-> <<96, 243>>,
           address |-> a, gas_used |-> 60000, gas_refunded |-> 0,
           logs |-> <<EngineLog1>>] : a \in {None} \cup {Some(x) : x \in Addresses}}
    ELSE {[kind |-> "Success", output_kind |-> "Call", data |-> <<>>,
           address |-> None, gas_used |-> 21000, gas_refunded |-> 0, logs |-> <<>>],
          [kind |-> "Success", output_kind |-> "Call", data |-> <<66>>,
           address |-> None, gas_used |-> 50000, gas_refunded |-> 30000,
           logs |-> <<EngineLog1, EngineLog2>>]}

EngineFailures(tx) ==
    {[kind |-> "Revert", output_kind |-> "Call", data |-> <<8>>, address |-> None,
      gas_used |-> 30000, gas_refunded |-> 0, logs |-> <<>>],
     [kind |-> "Halt", output_kind |-> "Call", data |-> <<>>, address |-> None,
      gas_used |-> tx.gas_limit, gas_refunded |-> 0, logs |-> <<>>]}

\* Balances and values are counted in gwei, prices in wei.
Gwei == 1000000000

\* A plain value transfer the engine accepts: the caller is a funded account
\* without code whose nonce is the transaction's, the callee holds no code,
\* there is no call data and the gas limit covers the intrinsic 21000.
EvmTransferApplies(input) ==
    LET tx == input.tx
        db == input.pre_state
    IN  /\ tx.to # None
        /\ tx.data = <<>>
        /\ tx.gas_limit >= 21000
        /\ tx.gas_limit <= input.block.gas_limit
        /\ tx.gas_price >= input.block.base_fee
        /\ account_exists(db, tx.caller)
        /\ Unwrap(tx.to) # tx.caller
        /\ LET s == Unwrap(get_account(db, tx.caller))
           IN  /\ s.code = <<>>
               /\ s.nonce = tx.nonce
               /\ s.balance >= tx.gas_limit * (tx.gas_price \div Gwei) + tx.value
        /\ account_exists(db, Unwrap(tx.to)) =>
               Unwrap(get_account(db, Unwrap(tx.to))).code = <<>>

\* What the engine reports for such a transfer: Success, 21000 gas, the caller
\* debited by value and fee with its nonce advanced, the callee credited.
EvmTransfer(input) ==
    LET tx == input.tx
        db == input.pre_state
        r == Unwrap(tx.to)
        s == Unwrap(get_account(db, tx.caller))
        rbal == IF account_exists(db, r) THEN Unwrap(get_account(db, r)).balance ELSE 0
        rnonce == IF account_exists(db, r) THEN Unwrap(get_account(db, r)).nonce ELSE 0
    IN  [ok |-> TRUE, err |-> "",
         result |-> [kind |-> "Success", output_kind |-> "Call", data |-> <<>>,
                     address |-> None, gas_used |-> 21000, gas_refunded |-> 0,
                     logs |-> <<>>],
         state |-> (tx.caller :>
                      [info |-> [balance |-> s.balance - tx.value
                                               - 21000 * (tx.gas_price \div Gwei),
                                 nonce |-> s.nonce + 1, code_hash |-> KECCAK_EMPTY,
                                 code |-> None],
                       storage |-> <<>>])
                   @@ (r :>
                      [info |-> [balance |-> rbal + tx.value, nonce |-> rnonce,
                                 code_hash |-> KECCAK_EMPTY, code |-> None],
                       storage |-> <<>>])]

\* Result<ResultAndState, EVMError>: the transfer's result where the engine's
\* rules fix it, else any value of the result type.
EngineResults(input) ==
    IF EvmTransferApplies(input) THEN {EvmTransfer(input)}
    ELSE {[ok |-> TRUE, err |-> "", result |-> r, state |-> st] :
             r \in EngineExecutionResults(input.tx) \cup EngineFailures(input.tx),
             st \in EngineStates}
           \cup {[ok |-> FALSE, err |-> "Transaction(invalid)", result |-> <<>>,
                  state |-> <<>>]}

\* ------------------------------------------------------------------- state
VARIABLES
    acc,          \* an Account Record under mutation
    hist,         \* its last operations: <<[before, op, slot, value], ...>>, newest last
    dbs,          \* two State Stores, built separately: [StoreIds -> InMemoryDB]
    lastIns,      \* the address each store's latest insert_account wrote (0: none)
    cargs,        \* the arguments given to ExecutionCommitment::new
    cmt,          \* Option: the Commitment built from cargs
    verdict,      \* Option: the latest verify call, [input_hash, output_hash, ok]
    gas,          \* an Output's [gas_used, gas_refunded]
    eff,          \* Option: effective_gas_used() of that Output
    envs,         \* the [block, tx] each of the two Inputs is built from
    pc,           \* where the running execute call stands ("idle": none runs)
    cur,          \* which Input the running call was given
    ih,           \* the running call's input_hash
    psr,          \* the running call's pre_state_root
    engine,       \* Option: what the engine returns for this Input
    post,         \* the running call's post_state
    out,          \* Option: the running call's Output
    rets,         \* Option, per Input: what execute returned
    sims,         \* Option, per Input: what simulate returned
    calls,        \* how often the running call has invoked the engine
    gpc,          \* where the guest run stands
    gin,          \* Option: the Input the guest read from the host
    gres,         \* Option: what execute returned to the guest
    journal,      \* the public output channel: the values committed, in order
    rd,           \* Option: the latest read through the Database contract
    mrg,          \* Option: the two stores as they were when merge was last called
    bld,          \* the ExecutionBuilder under construction
    bargs,        \* Option, per part: the argument of the latest call of its setter
    bres          \* Option: every way ExecutionBuilder::execute can end

accountVars == <<acc, hist>>
storeVars == <<dbs, lastIns>>
commitVars == <<cargs, cmt, verdict>>
gasVars == <<gas, eff>>
inputVars == <<envs>>
execVars == <<pc, cur, ih, psr, engine, post, out, rets, sims, calls>>
guestVars == <<gpc, gin, gres, journal>>
readVars == <<rd>>
mergeVars == <<mrg>>
builderVars == <<bld, bargs, bres>>

vars == <<accountVars, storeVars, commitVars, gasVars, inputVars, execVars,
          guestVars, readVars, mergeVars, builderVars>>

StoreIds == {1, 2}

\* Raw and digest hashes handed to the commitment operations.
HashPool == {B256_repeat_byte(n) : n \in 0..MaxHashByte} \cup {KECCAK_EMPTY}

GasValues == (0..MaxGas) \cup {20000, 60000, 100000, GasWord - 1}

\* Account Records that set-up code inserts into a store.
AccountPool ==
    {new_with_balance(1), set_storage(new_contract(<<96>>, 2), 1, 1)}

BlockNumbers == {100}
BlockHashPool == {B256_repeat_byte(171)}

\* The parts of the state a specification does not use.
AccountIdle == acc = new_with_balance(0) /\ hist = <<>>
StoreIdle == dbs = [s \in StoreIds |-> InMemoryDB_new] /\ lastIns = [s \in StoreIds |-> 0]
CommitIdle ==
    /\ cargs = [input_hash |-> Hash_ZERO, output_hash |-> Hash_ZERO,
                pre_state_root |-> Hash_ZERO, post_state_root |-> Hash_ZERO]
    /\ cmt = None
    /\ verdict = None
GasIdle == gas = [gas_used |-> 0, gas_refunded |-> 0] /\ eff = None
BaseEnv == [block |-> BlockEnv_default, tx |-> TxInput_transfer(1, 2, 1)]
InputIdle == envs = [s \in StoreIds |-> BaseEnv]
ExecIdle ==
    /\ pc = "idle" /\ cur = 1
    /\ ih = Hash_ZERO /\ psr = Hash_ZERO
    /\ engine = None
    /\ post = InMemoryDB_new
    /\ out = None
    /\ rets = [s \in StoreIds |-> None]
    /\ sims = [s \in StoreIds |-> None]
    /\ calls = 0
GuestIdle == gpc = "start" /\ gin = None /\ gres = None /\ journal = <<>>
ReadIdle == rd = None
MergeIdle == mrg = None
BuilderIdle ==
    /\ bld = [block |-> BlockEnv_default, tx |-> TxInput_default, state |-> InMemoryDB_new]
    /\ bargs = [block |-> None, tx |-> None, state |-> None]
    /\ bres = None

\* -------------------------------------------------- Account Record actions
Remember(op, slot, value) ==
    LET e == [before |-> acc, op |-> op, slot |-> slot, value |-> value]
    IN  IF Len(hist) < 2 THEN Append(hist, e) ELSE <<hist[2], e>>

AccSetStorage ==
    \E k \in Slots, v \in Values :
        /\ acc' = set_storage(acc, k, v)
        /\ hist' = Remember("set_storage", k, v)
        /\ UNCHANGED <<storeVars, commitVars, gasVars, inputVars, execVars, guestVars, readVars, mergeVars, builderVars>>

\* Every Account Record the constructors can return.
ConstructedAccounts ==
    {new_with_balance(b) : b \in Values}
        \cup {new_contract(c, b) : c \in CodePool, b \in Values}
        \cup {new_contract_with_storage(c, b, s) :
                c \in CodePool, b \in Values, s \in BTreeMapsOver(NumSlots, Values)}
        \cup {AccountState_default}

AccountInit ==
    /\ acc \in ConstructedAccounts
    /\ hist = <<>>
    /\ StoreIdle /\ CommitIdle /\ GasIdle /\ InputIdle /\ ExecIdle /\ GuestIdle /\ ReadIdle /\ MergeIdle /\ BuilderIdle

AccountNext ==
    \/ AccSetStorage

SpecAccount == AccountInit /\ [][AccountNext]_vars

\* ----------------------------------------------------- State Store actions
StoreInsertAccount ==
    \E s \in StoreIds, a \in Addresses, r \in AccountPool :
        /\ dbs' = [dbs EXCEPT ![s] = insert_account(dbs[s], a, r)]
        /\ lastIns' = [lastIns EXCEPT ![s] = a]
        /\ UNCHANGED <<accountVars, commitVars, gasVars, inputVars, execVars, guestVars, readVars, mergeVars, builderVars>>

StoreRemoveAccount ==
    \E s \in StoreIds, a \in Addresses :
        /\ dbs' = [dbs EXCEPT ![s] = remove_account(dbs[s], a)]
        /\ UNCHANGED <<lastIns, accountVars, commitVars, gasVars, inputVars, execVars, guestVars, readVars, mergeVars, builderVars>>

StoreMerge ==
    \E s \in StoreIds, o \in StoreIds :
        /\ s # o
        /\ dbs' = [dbs EXCEPT ![s] = merge(dbs[s], dbs[o])]
        /\ UNCHANGED <<lastIns, accountVars, commitVars, gasVars, inputVars, execVars, guestVars, readVars, mergeVars, builderVars>>

StoreInsertBlockHash ==
    \E s \in StoreIds, n \in BlockNumbers, h \in BlockHashPool :
        /\ dbs' = [dbs EXCEPT ![s] = insert_block_hash(dbs[s], n, h)]
        /\ UNCHANGED <<lastIns, accountVars, commitVars, gasVars, inputVars, execVars, guestVars, readVars, mergeVars, builderVars>>

StoreInit == StoreIdle /\ AccountIdle /\ CommitIdle /\ GasIdle /\ InputIdle /\ ExecIdle /\ GuestIdle /\ ReadIdle /\ MergeIdle /\ BuilderIdle

StoreNext ==
    \/ StoreInsertAccount
    \/ StoreRemoveAccount
    \/ StoreMerge
    \/ StoreInsertBlockHash

SpecStore == StoreInit /\ [][StoreNext]_vars

\* ------------------------------------------------------ Commitment actions
CmtNew ==
    /\ cmt = None
    /\ cmt' = Some(ExecutionCommitment_new(cargs.input_hash, cargs.output_hash,
                                           cargs.pre_state_root, cargs.post_state_root))
    /\ UNCHANGED <<cargs, verdict, accountVars, storeVars, gasVars, inputVars, execVars, guestVars, readVars, mergeVars, builderVars>>

CmtVerify ==
    \E x \in HashPool, y \in HashPool :
        /\ cmt # None
        /\ verdict' = Some([input_hash |-> x, output_hash |-> y,
                            ok |-> verify(Unwrap(cmt), x, y)])
        /\ UNCHANGED <<cargs, cmt, accountVars, storeVars, gasVars, inputVars, execVars, guestVars, readVars, mergeVars, builderVars>>

CommitInit ==
    /\ cargs \in [input_hash : HashPool, output_hash : HashPool,
                  pre_state_root : {Hash_ZERO, KECCAK_EMPTY},
                  post_state_root : {Hash_ZERO, KECCAK_EMPTY}]
    /\ cmt = None
    /\ verdict = None
    /\ AccountIdle /\ StoreIdle /\ GasIdle /\ InputIdle /\ ExecIdle /\ GuestIdle /\ ReadIdle /\ MergeIdle /\ BuilderIdle

CommitNext ==
    \/ CmtNew
    \/ CmtVerify

SpecCommit == CommitInit /\ [][CommitNext]_vars

\* ------------------------------------------------------------- Gas actions
GasEffective ==
    /\ eff = None
    /\ eff' = Some(effective_gas_used(gas.gas_used, gas.gas_refunded))
    /\ UNCHANGED <<gas, accountVars, storeVars, commitVars, inputVars, execVars, guestVars, readVars, mergeVars, builderVars>>

GasInit ==
    /\ gas \in [gas_used : GasValues, gas_refunded : GasValues]
    /\ eff = None
    /\ AccountIdle /\ StoreIdle /\ CommitIdle /\ InputIdle /\ ExecIdle /\ GuestIdle /\ ReadIdle /\ MergeIdle /\ BuilderIdle

GasNext ==
    \/ GasEffective

SpecGas == GasInit /\ [][GasNext]_vars

\* ----------------------------------------------------------- Input actions
FieldNames ==
    {"number", "timestamp", "block_gas_limit", "coinbase", "base_fee", "prev_randao",
     "chain_id", "caller", "to", "value", "data", "gas_limit", "gas_price", "nonce"}

Field(e, f) ==
    CASE f = "number" -> e.block.number
      [] f = "timestamp" -> e.block.timestamp
      [] f = "block_gas_limit" -> e.block.gas_limit
      [] f = "coinbase" -> e.block.coinbase
      [] f = "base_fee" -> e.block.base_fee
      [] f = "prev_randao" -> e.block.prev_randao
      [] f = "chain_id" -> e.block.chain_id
      [] f = "caller" -> e.tx.caller
      [] f = "to" -> e.tx.to
      [] f = "value" -> e.tx.value
      [] f = "data" -> e.tx.data
      [] f = "gas_limit" -> e.tx.gas_limit
      [] f = "gas_price" -> e.tx.gas_price
      [] f = "nonce" -> e.tx.nonce

\* The same [block, tx] with one field given another value.
WithOtherField(e, f) ==
    CASE f = "number" -> [e EXCEPT !.block.number = 2]
      [] f = "timestamp" -> [e EXCEPT !.block.timestamp = 1700000001]
      [] f = "block_gas_limit" -> [e EXCEPT !.block.gas_limit = 15000000]
      [] f = "coinbase" -> [e EXCEPT !.block.coinbase = 1]
      [] f = "base_fee" -> [e EXCEPT !.block.base_fee = 2]
      [] f = "prev_randao" -> [e EXCEPT !.block.prev_randao = B256_repeat_byte(1)]
      [] f = "chain_id" -> [e EXCEPT !.block.chain_id = 31337]
      [] f = "caller" -> [e EXCEPT !.tx.caller = 2]
      [] f = "to" -> [e EXCEPT !.tx.to = None]
      [] f = "value" -> [e EXCEPT !.tx.value = 2]
      [] f = "data" -> [e EXCEPT !.tx.data = <<1>>]
      [] f = "gas_limit" -> [e EXCEPT !.tx.gas_limit = 100000]
      [] f = "gas_price" -> [e EXCEPT !.tx.gas_price = 2]
      [] f = "nonce" -> [e EXCEPT !.tx.nonce = 1]

DiffFields == {f \in FieldNames : Field(envs[1], f) # Field(envs[2], f)}

InputOf(s) == ExecutionInput_new(envs[s].block, envs[s].tx, dbs[s])

\* Set-up code gives the second Input another value in one field.
InputSetField ==
    \E f \in FieldNames :
        /\ f \notin DiffFields
        /\ Cardinality(DiffFields) < MaxDiff
        /\ envs' = [envs EXCEPT ![2] = WithOtherField(envs[2], f)]
        /\ UNCHANGED <<accountVars, storeVars, commitVars, gasVars, execVars, guestVars, readVars, mergeVars, builderVars>>

\* Set-up code inserts an externally owned account into one Input's pre-state.
InputInsertAccount ==
    \E s \in StoreIds, a \in Addresses :
        /\ dbs' = [dbs EXCEPT ![s] = insert_account(dbs[s], a, new_with_balance(1))]
        /\ UNCHANGED <<lastIns, accountVars, commitVars, gasVars, inputVars, execVars, guestVars, readVars, mergeVars, builderVars>>

InputInit == InputIdle /\ StoreIdle /\ AccountIdle /\ CommitIdle /\ GasIdle /\ ExecIdle /\ GuestIdle /\ ReadIdle /\ MergeIdle /\ BuilderIdle

InputNext ==
    \/ InputSetField
    \/ InputInsertAccount
    \/ StoreInsertBlockHash

SpecInput == InputInit /\ [][InputNext]_vars

\* ------------------------------------------------------- execute actions
\* Every store that set-up code builds with at most n insert_account calls.
RECURSIVE BuiltStores(_)
BuiltStores(n) ==
    IF n = 0 THEN {InMemoryDB_new}
    ELSE LET prev == BuiltStores(n - 1)
         IN  prev \cup {insert_account(d, a, r) :
                          d \in prev, a \in Addresses, r \in AccountPool}

CreateEnv == [block |-> BlockEnv_default, tx |-> TxInput_create(1, <<96>>, 0)]

\* bincode::serialize: the bytes, or an error.
bincode_serialize(bytes) ==
    {[ok |-> TRUE, bytes |-> bytes], [ok |-> FALSE, bytes |-> <<>>]}

\* hash_struct: serialize(value).expect(..), then keccak256; expect aborts the
\* process on a failed serialization.
hash_struct(ser) ==
    IF ser.ok THEN [panic |-> FALSE, hash |-> keccak256(ser.bytes)]
    ELSE [panic |-> TRUE, hash |-> Hash_ZERO]

\* An engine failure reported under another variant of the error type.
engine_error_as_invalid_transaction(e) == <<"InvalidTransaction", e>>

\* map_err(|e| ShadowEvmError::ExecutionHalted(format!("{:?}", e)))
engine_error(e) == <<"ExecutionHalted", e>>

\* Reconciliation started from an empty store.
reconcile_from_empty(input) == InMemoryDB_new

\* let mut post_state = input.pre_state;
reconcile_base(input) == input.pre_state

\* simulate with the engine's changes folded into the returned state.
simulate_output_reconciled(input, r) ==
    build_output(r.result, CHOOSE db \in apply_state_changes(input.pre_state, r) : TRUE)

\* A dry run that reports the gas used without the refund.
simulate_output_without_refund(input, r) ==
    [build_output(r.result, input.pre_state) EXCEPT !.gas_refunded = 0]

\* simulate, line 85: the Output is built over the untouched pre-state.
simulate_output(input, r) == build_output(r.result, input.pre_state)

\* The calls are made one after another: execute on each Input, then simulate.
ExecuteBegin ==
    \E s \in StoreIds :
        /\ pc = "idle"
        /\ rets[s] = None
        /\ \A t \in StoreIds : t < s => rets[t] # None
        /\ cur' = s
        /\ calls' = 0
        /\ \E si \in bincode_serialize(SerExecutionInput(InputOf(s))),
              sr \in bincode_serialize(SerAccounts(InputOf(s).pre_state.accounts)) :
              LET h == hash_struct(si)
                  r == hash_struct(sr)
              IN  IF h.panic \/ r.panic
                  THEN pc' = "panicked" /\ UNCHANGED <<ih, psr>>
                  ELSE pc' = "evm_built" /\ ih' = h.hash /\ psr' = r.hash
        /\ UNCHANGED <<engine, post, out, rets, sims>>
        /\ UNCHANGED <<accountVars, storeVars, commitVars, gasVars, inputVars, guestVars, readVars, mergeVars, builderVars>>

\* An execute that calls transact() again when the engine fails.
ExecuteTransact_retrying ==
    /\ pc = "evm_built"
    /\ \E r \in IF engine = None THEN EngineResults(InputOf(cur)) ELSE {Unwrap(engine)} :
        /\ engine' = Some(r)
        /\ calls' = calls + 1
        /\ IF r.ok
           THEN post' = reconcile_base(InputOf(cur)) /\ pc' = "transacted"
           ELSE post' = post /\ pc' = "evm_built"
        /\ UNCHANGED <<cur, ih, psr, out, rets, sims>>
        /\ UNCHANGED <<accountVars, storeVars, commitVars, gasVars, inputVars, guestVars, readVars, mergeVars, builderVars>>

\* execute, lines 54-59: transact(); an engine error is returned as
\* ExecutionHalted, otherwise the pre-state becomes the post-state to reconcile.
ExecuteTransact ==
    /\ pc = "evm_built"
    /\ \E r \in IF engine = None THEN EngineResults(InputOf(cur)) ELSE {Unwrap(engine)} :
        /\ engine' = Some(r)
        /\ calls' = calls + 1
        /\ IF r.ok
           THEN /\ post' = reconcile_base(InputOf(cur))
                /\ pc' = "transacted"
                /\ rets' = rets
           ELSE /\ rets' = [rets EXCEPT ![cur] =
                               Some([ok |-> FALSE, err |-> engine_error(r.err)])]
                /\ pc' = "idle"
                /\ post' = post
        /\ UNCHANGED <<cur, ih, psr, out, sims>>
        /\ UNCHANGED <<accountVars, storeVars, commitVars, gasVars, inputVars, guestVars, readVars, mergeVars, builderVars>>

\* execute, line 60: apply_state_changes.
ExecuteApply ==
    /\ pc = "transacted"
    /\ \E db \in apply_state_changes(post, Unwrap(engine)) : post' = db
    /\ pc' = "reconciled"
    /\ UNCHANGED <<cur, ih, psr, engine, out, rets, sims, calls>>
    /\ UNCHANGED <<accountVars, storeVars, commitVars, gasVars, inputVars, guestVars, readVars, mergeVars, builderVars>>

\* execute, line 63: build_output.
ExecuteBuildOutput ==
    /\ pc = "reconciled"
    /\ out' = Some(build_output(Unwrap(engine).result, post))
    /\ pc' = "output"
    /\ UNCHANGED <<cur, ih, psr, engine, post, rets, sims, calls>>
    /\ UNCHANGED <<accountVars, storeVars, commitVars, gasVars, inputVars, guestVars, readVars, mergeVars, builderVars>>

\* execute, lines 66-71: hash the Output, assemble the Commitment, return.
ExecuteCommit ==
    /\ pc = "output"
    /\ \E so \in bincode_serialize(SerExecutionOutput(Unwrap(out))),
          sr \in bincode_serialize(SerAccounts(Unwrap(out).post_state.accounts)) :
          IF hash_struct(so).panic \/ hash_struct(sr).panic
          THEN pc' = "panicked" /\ UNCHANGED <<rets, out>>
          ELSE /\ rets' = [rets EXCEPT ![cur] =
                              Some([ok |-> TRUE, output |-> Unwrap(out),
                                    commitment |-> execute_commitment(ih, psr, Unwrap(out))])]
               /\ out' = None
               /\ pc' = "idle"
    /\ UNCHANGED <<cur, ih, psr, engine, post, sims, calls>>
    /\ UNCHANGED <<accountVars, storeVars, commitVars, gasVars, inputVars, guestVars, readVars, mergeVars, builderVars>>

\* simulate, line 78: build_evm.
SimulateBegin ==
    \E s \in StoreIds :
        /\ pc = "idle"
        /\ \A t \in StoreIds : rets[t] # None
        /\ sims[s] = None
        /\ \A t \in StoreIds : t < s => sims[t] # None
        /\ cur' = s
        /\ calls' = 0
        /\ pc' = "sim_evm_built"
        /\ UNCHANGED <<ih, psr, engine, post, out, rets, sims>>
        /\ UNCHANGED <<accountVars, storeVars, commitVars, gasVars, inputVars, guestVars, readVars, mergeVars, builderVars>>

\* simulate, lines 80-85: transact(), then build_output over the pre-state.
SimulateTransact ==
    /\ pc = "sim_evm_built"
    /\ \E r \in IF engine = None THEN EngineResults(InputOf(cur)) ELSE {Unwrap(engine)} :
        /\ engine' = Some(r)
        /\ calls' = calls + 1
        /\ sims' = [sims EXCEPT ![cur] =
                       IF r.ok
                       THEN Some([ok |-> TRUE, output |-> simulate_output(InputOf(cur), r)])
                       ELSE Some([ok |-> FALSE, err |-> engine_error(r.err)])]
    /\ pc' = "idle"
    /\ UNCHANGED <<cur, ih, psr, post, out, rets>>
    /\ UNCHANGED <<accountVars, storeVars, commitVars, gasVars, inputVars, guestVars, readVars, mergeVars, builderVars>>

\* The transfer of test_simple_transfer, in gwei: 10^18 and 10^17 wei.
InitialBalance == 1000000000
TransferAmount == 100000000

TransferEnv ==
    [block |-> BlockEnv_default, tx |-> TxInput_transfer(1, 2, TransferAmount)]

\* Pre-states of the transfer: the sender funded, no account at the receiver,
\* any accounts at the other addresses.
RECURSIVE WithOthers(_, _)
WithOthers(db, A) ==
    IF A = {} THEN {db}
    ELSE LET a == CHOOSE x \in A : TRUE
         IN  WithOthers(db, A \ {a})
                 \cup UNION {WithOthers(insert_account(db, a, r), A \ {a}) :
                               r \in AccountPool}

TransferPreStates ==
    WithOthers(insert_account(InMemoryDB_new, 1, new_with_balance(InitialBalance)),
               Addresses \ {1, 2})

\* Pre-states of test_contract_creation: the deployer funded with 10^18 wei,
\* any accounts at the other addresses.
CreatePreStates ==
    WithOthers(insert_account(InMemoryDB_new, 1, new_with_balance(InitialBalance)),
               Addresses \ {1})

\* Two equal, separately built Inputs: a transfer or a creation over any
\* pre-state, the funded transfer, or the funded creation.
Init ==
    /\ \/ /\ dbs \in [StoreIds -> BuiltStores(NumAddr)]
          /\ BTreeAsMap(dbs[1].accounts) = BTreeAsMap(dbs[2].accounts)
          /\ \E e \in {BaseEnv, CreateEnv} : envs = [s \in StoreIds |-> e]
       \/ /\ \E d \in TransferPreStates : dbs = [s \in StoreIds |-> d]
          /\ envs = [s \in StoreIds |-> TransferEnv]
       \/ /\ \E d \in CreatePreStates : dbs = [s \in StoreIds |-> d]
          /\ envs = [s \in StoreIds |-> CreateEnv]
    /\ lastIns = [s \in StoreIds |-> 0]
    /\ ExecIdle /\ GuestIdle /\ ReadIdle /\ MergeIdle /\ BuilderIdle
    /\ AccountIdle /\ CommitIdle /\ GasIdle

Next ==
    \/ ExecuteBegin
    \/ ExecuteTransact
    \/ ExecuteApply
    \/ ExecuteBuildOutput
    \/ ExecuteCommit
    \/ SimulateBegin
    \/ SimulateTransact

Spec == Init /\ [][Next]_vars

\* ---------------------------------------------------------- the guest run
\* What execute returns for an Input once the engine has returned r.
execute_with(input, r) ==
    IF r.ok
    THEN {LET o == build_output(r.result, db)
          IN  [kind |-> "return", ok |-> TRUE, output |-> o,
               commitment |->
                   execute_commitment(ExecutionInput_hash(input),
                                      ExecutionInput_pre_state_root(input), o)] :
             db \in apply_state_changes(reconcile_base(input), r)}
    ELSE {[kind |-> "return", ok |-> FALSE, err |-> engine_error(r.err)]}

\* ShadowExecutor::execute as one call: every way it can end for an Input. It
\* aborts when a serialization fails, returns the typed error when the engine
\* fails, and otherwise returns the Output and its Commitment.
execute(input) ==
    {[kind |-> "panic"]}
        \cup UNION {execute_with(input, r) : r \in EngineResults(input)}

\* ZkExecutor::execute hands the Input to the core executor.
ZkExecutor_execute(input) == execute(input)

\* env::commit appends the value to the journal.
commit_output(jr, commitment) == Append(jr, commitment)

\* A run that publishes an all-zero Commitment when execute failed.
main_match_publishing_failure(result, jr) ==
    IF result.ok
    THEN [journal |-> commit_output(jr, result.commitment), gpc |-> "done"]
    ELSE [journal |-> commit_output(jr, ExecutionCommitment_new(Hash_ZERO, Hash_ZERO,
                                                               Hash_ZERO, Hash_ZERO)),
          gpc |-> "done"]

\* main, lines 47-58: commit the Commitment on Ok, panic on Err.
main_match(result, jr) ==
    IF result.ok
    THEN [journal |-> commit_output(jr, result.commitment), gpc |-> "done"]
    ELSE [journal |-> jr, gpc |-> "aborted"]

\* The Inputs a host hands to the guest.
GuestInputs ==
    {ExecutionInput_new(e.block, e.tx, d) :
        e \in {BaseEnv, CreateEnv}, d \in BuiltStores(1)}
      \cup {ExecutionInput_new(TransferEnv.block, TransferEnv.tx, d) :
              d \in TransferPreStates}

\* main, line 40: read_input.
GuestReadInput ==
    /\ gpc = "start"
    /\ \E i \in GuestInputs : gin' = Some(i)
    /\ gpc' = "read"
    /\ UNCHANGED <<gres, journal>>
    /\ UNCHANGED <<accountVars, storeVars, commitVars, gasVars, inputVars, execVars, readVars, mergeVars, builderVars>>

\* main, line 44: execute; a panic inside it aborts the run.
GuestExecute ==
    /\ gpc = "read"
    /\ \E r \in ZkExecutor_execute(Unwrap(gin)) :
          IF r.kind = "panic"
          THEN gpc' = "aborted" /\ gres' = gres
          ELSE gpc' = "executed" /\ gres' = Some(r)
    /\ UNCHANGED <<gin, journal>>
    /\ UNCHANGED <<accountVars, storeVars, commitVars, gasVars, inputVars, execVars, readVars, mergeVars, builderVars>>

\* main, lines 47-58.
GuestHandleResult ==
    /\ gpc = "executed"
    /\ LET m == main_match(Unwrap(gres), journal)
       IN  journal' = m.journal /\ gpc' = m.gpc
    /\ UNCHANGED <<gin, gres>>
    /\ UNCHANGED <<accountVars, storeVars, commitVars, gasVars, inputVars, execVars, readVars, mergeVars, builderVars>>

GuestInit ==
    /\ GuestIdle
    /\ AccountIdle /\ StoreIdle /\ CommitIdle /\ GasIdle /\ InputIdle /\ ExecIdle /\ ReadIdle /\ MergeIdle /\ BuilderIdle

GuestNext ==
    \/ GuestReadInput
    \/ GuestExecute
    \/ GuestHandleResult

SpecGuest == GuestInit /\ [][GuestNext]_vars

\* ------------------------------------------- the Database read contract
Bytecode_new_raw(bytes) == [raw |-> bytes]
Bytecode_default == [raw |-> <<>>]

\* Database::basic
Database_basic(db, address) ==
    LET found == BTreeGet(db.accounts, address)
    IN  [ok |-> TRUE,
         value |-> IF found = None THEN None
                   ELSE LET a == Unwrap(found)
                        IN  Some([balance |-> a.balance, nonce |-> a.nonce,
                                  code_hash |-> a.code_hash,
                                  code |-> IF a.code = <<>> THEN None
                                           ELSE Some(Bytecode_new_raw(a.code))])]

\* The loop of code_by_hash over accounts.values(), in key order.
RECURSIVE FindCode(_, _)
FindCode(entries, code_hash) ==
    IF entries = <<>> THEN Bytecode_default
    ELSE LET a == Head(entries)[2]
         IN  IF a.code_hash = code_hash /\ a.code # <<>>
             THEN Bytecode_new_raw(a.code)
             ELSE FindCode(Tail(entries), code_hash)

\* Database::code_by_hash
Database_code_by_hash(db, code_hash) ==
    [ok |-> TRUE,
     value |-> IF code_hash = KECCAK_EMPTY THEN Bytecode_default
               ELSE FindCode(db.accounts, code_hash)]

\* A storage read that reports a missing account or slot as an error.
Database_storage_strict(db, address, slot) ==
    LET found == BTreeGet(db.accounts, address)
    IN  IF found = None THEN [ok |-> FALSE, err |-> <<"AccountNotFound", address>>]
        ELSE IF ~BTreeContains(Unwrap(found).storage, slot)
             THEN [ok |-> FALSE, err |-> <<"StorageNotFound", address, slot>>]
             ELSE [ok |-> TRUE, value |-> get_storage(Unwrap(found), slot)]

\* Database::storage
Database_storage(db, address, slot) ==
    LET found == BTreeGet(db.accounts, address)
    IN  [ok |-> TRUE,
         value |-> IF found = None THEN 0 ELSE get_storage(Unwrap(found), slot)]

\* Database::block_hash
Database_block_hash(db, number) ==
    LET found == BTreeGet(db.block_hashes, number)
    IN  [ok |-> TRUE, value |-> IF found = None THEN Hash_ZERO ELSE Unwrap(found)]

\* The stores the engine reads: built by set-up code, with or without a
\* recorded block hash.
ReadStores ==
    BuiltStores(NumAddr)
        \cup {insert_block_hash(d, n, h) :
                d \in BuiltStores(NumAddr), n \in BlockNumbers, h \in BlockHashPool}

\* The code hashes and block numbers the engine asks for.
ReadHashes == HashPool \cup {keccak256(c) : c \in CodePool}
ReadNumbers == BlockNumbers \cup {n + 1 : n \in BlockNumbers}

ReadBasic ==
    \E a \in Addresses :
        /\ rd' = Some([op |-> "basic", address |-> a, result |-> Database_basic(dbs[1], a)])
        /\ UNCHANGED <<accountVars, storeVars, commitVars, gasVars, inputVars, execVars, guestVars, mergeVars, builderVars>>

ReadCodeByHash ==
    \E h \in ReadHashes :
        /\ rd' = Some([op |-> "code_by_hash", code_hash |-> h,
                       result |-> Database_code_by_hash(dbs[1], h)])
        /\ UNCHANGED <<accountVars, storeVars, commitVars, gasVars, inputVars, execVars, guestVars, mergeVars, builderVars>>

ReadStorage ==
    \E a \in Addresses, k \in Slots :
        /\ rd' = Some([op |-> "storage", address |-> a, slot |-> k,
                       result |-> Database_storage(dbs[1], a, k)])
        /\ UNCHANGED <<accountVars, storeVars, commitVars, gasVars, inputVars, execVars, guestVars, mergeVars, builderVars>>

ReadBlockHash ==
    \E n \in ReadNumbers :
        /\ rd' = Some([op |-> "block_hash", number |-> n,
                       result |-> Database_block_hash(dbs[1], n)])
        /\ UNCHANGED <<accountVars, storeVars, commitVars, gasVars, inputVars, execVars, guestVars, mergeVars, builderVars>>

ReadInit ==
    /\ \E d \in ReadStores : dbs = [s \in StoreIds |-> d]
    /\ lastIns = [s \in StoreIds |-> 0]
    /\ ReadIdle /\ MergeIdle /\ BuilderIdle
    /\ AccountIdle /\ CommitIdle /\ GasIdle /\ InputIdle /\ ExecIdle /\ GuestIdle

ReadNext ==
    \/ ReadBasic
    \/ ReadCodeByHash
    \/ ReadStorage
    \/ ReadBlockHash

SpecRead == ReadInit /\ [][ReadNext]_vars

\* ------------------------------------------------------------------ claims
\* The last two operations were set_storage(k, v) with v # 0 on a key that was
\* not set, then set_storage(k, 0).
NonzeroThenZero ==
    /\ Len(hist) = 2
    /\ hist[1].op = "set_storage" /\ hist[2].op = "set_storage"
    /\ hist[1].slot = hist[2].slot
    /\ hist[1].value # 0 /\ hist[2].value = 0
    /\ ~BTreeContains(hist[1].before.storage, hist[1].slot)

\* C5: writing a non-zero value to an unset storage key and then zero removes
\* the entry, the key reads as zero again, and the account's storage map, its
\* serialised form and its hash are those of the account before both writes.
C5_StorageCanonicalization ==
    NonzeroThenZero =>
        /\ ~BTreeContains(acc.storage, hist[1].slot)
        /\ get_storage(acc, hist[1].slot) = 0
        /\ acc.storage = hist[1].before.storage
        /\ SerAccountState(acc) = SerAccountState(hist[1].before)
        /\ hash_account(acc) = hash_account(hist[1].before)

C5_Witness ==
    /\ NonzeroThenZero
    /\ get_storage(hist[2].before, hist[1].slot) = hist[1].value
    /\ Len(hist[1].before.storage) = 1

\* C6: a storage entry is present if and only if its value is non-zero, in
\* every Account Record built by a public constructor and changed by
\* set_storage.
C6_StorageSparse ==
    \A i \in 1..Len(acc.storage) : acc.storage[i][2] # 0

\* C7: the code hash is the hash of the code bytes when the code is non-empty
\* and the empty-code sentinel otherwise, for every constructed Account Record.
C7_CodeHashInvariant ==
    acc.code_hash = (IF acc.code # <<>> THEN keccak256(acc.code) ELSE KECCAK_EMPTY)


\* C8: two State Stores that hold the same address-to-account mapping, however
\* they were built, have the same state root, and stores whose mappings differ
\* have different roots.
C8_StateRootOrderIndependent ==
    (BTreeAsMap(dbs[1].accounts) = BTreeAsMap(dbs[2].accounts))
        <=> (compute_state_root(dbs[1]) = compute_state_root(dbs[2]))

C8_Witness ==
    /\ BTreeAsMap(dbs[1].accounts) = BTreeAsMap(dbs[2].accounts)
    /\ Len(dbs[1].accounts) = 2
    /\ dbs[1].accounts[1][2] # dbs[1].accounts[2][2]
    /\ lastIns[1] # lastIns[2]
    /\ lastIns[1] # 0 /\ lastIns[2] # 0
    /\ compute_state_root(dbs[1]) = compute_state_root(dbs[2])

\* A Commitment was built from (input_hash = A, output_hash = B) and verify was
\* called on it.
Verified == cmt # None /\ verdict # None
VerifiedAB ==
    Unwrap(verdict).input_hash = cargs.input_hash
        /\ Unwrap(verdict).output_hash = cargs.output_hash
VerifiedBA ==
    Unwrap(verdict).input_hash = cargs.output_hash
        /\ Unwrap(verdict).output_hash = cargs.input_hash

\* C3 as stated: for all hashes A and B, a Commitment built from (A, B)
\* verifies against (A, B) and fails against (B, A).
C3_VerifyAllHashes ==
    Verified =>
        /\ VerifiedAB => Unwrap(verdict).ok
        /\ VerifiedBA => ~Unwrap(verdict).ok

\* C3 amended: for all hashes A # B, a Commitment built from (A, B) verifies
\* against (A, B) and fails against (B, A).
C3_VerifyDistinctHashes ==
    (Verified /\ cargs.input_hash # cargs.output_hash) =>
        /\ VerifiedAB => Unwrap(verdict).ok
        /\ VerifiedBA => ~Unwrap(verdict).ok

C3_Witness ==
    /\ Verified /\ cargs.input_hash # cargs.output_hash
    /\ VerifiedBA /\ ~Unwrap(verdict).ok
    /\ cargs.pre_state_root # cargs.post_state_root

\* C4: the binding of (h1, h2) is the hash of h1 followed by h2, and for
\* h1 # h2 it differs from the binding of (h2, h1).
C4_BindNonCommutative ==
    cmt # None =>
        /\ Unwrap(cmt).commitment = keccak256(<<cargs.input_hash, cargs.output_hash>>)
        /\ cargs.input_hash # cargs.output_hash =>
              Unwrap(cmt).commitment
                  # compute_commitment(cargs.output_hash, cargs.input_hash)

C4_Witness ==
    /\ cmt # None
    /\ cargs.input_hash = KECCAK_EMPTY
    /\ cargs.output_hash = Hash_ZERO

\* C10: effective gas used is gas_used minus the refund capped at half of
\* gas_used (truncating division); the subtraction never underflows and the
\* result lies between gas_used - gas_used / 2 and gas_used.
C10_GasRefundCap ==
    eff # None =>
        LET r == Unwrap(eff).value
            half == gas.gas_used \div 2
            capped == IF gas.gas_refunded > half THEN half ELSE gas.gas_refunded
        IN  /\ ~Unwrap(eff).underflow
            /\ r = gas.gas_used - capped
            /\ gas.gas_used - half <= r /\ r <= gas.gas_used
            /\ (gas.gas_used = 100000 /\ gas.gas_refunded = 60000) => r = 50000
            /\ (gas.gas_used = 100000 /\ gas.gas_refunded = 20000) => r = 80000

C10_Witness ==
    /\ eff # None
    /\ gas.gas_used = 100000 /\ gas.gas_refunded = 60000
    /\ Unwrap(eff).value = 50000

\* The two Inputs have equal pre-states: the same accounts and block hashes.
SamePreState ==
    /\ BTreeAsMap(dbs[1].accounts) = BTreeAsMap(dbs[2].accounts)
    /\ BTreeAsMap(dbs[1].block_hashes) = BTreeAsMap(dbs[2].block_hashes)

\* C9: two structurally equal Inputs (equal block and transaction fields, equal
\* but separately built pre-states) have equal hashes, and two Inputs that
\* differ in exactly one scalar field have different hashes.
C9_InputHashStable ==
    /\ (DiffFields = {} /\ SamePreState) =>
          ExecutionInput_hash(InputOf(1)) = ExecutionInput_hash(InputOf(2))
    /\ (Cardinality(DiffFields) = 1 /\ SamePreState) =>
          ExecutionInput_hash(InputOf(1)) # ExecutionInput_hash(InputOf(2))

C9_Witness ==
    /\ DiffFields = {"number"}
    /\ SamePreState
    /\ Len(dbs[1].accounts) = 2
    /\ Len(dbs[1].block_hashes) = 1
    /\ ExecutionInput_hash(InputOf(1)) # ExecutionInput_hash(InputOf(2))

Returned(s) == rets[s] # None
Ret(s) == Unwrap(rets[s])
EffectiveGas(o) == effective_gas_used(o.gas_used, o.gas_refunded)

\* C1: two calls of execute on equal, separately built copies of an Input
\* return the same outcome; when they succeed, the commitment hashes and the
\* post-state roots are equal, and so are gas_used and the effective gas used.
C1_ExecuteDeterministic ==
    (Returned(1) /\ Returned(2)) =>
        /\ Ret(1).ok = Ret(2).ok
        /\ ~Ret(1).ok => Ret(1).err = Ret(2).err
        /\ Ret(1).ok =>
              /\ Ret(1).commitment = Ret(2).commitment
              /\ Ret(1).output.gas_used = Ret(2).output.gas_used
              /\ EffectiveGas(Ret(1).output) = EffectiveGas(Ret(2).output)
              /\ ExecutionOutput_post_state_root(Ret(1).output)
                    = ExecutionOutput_post_state_root(Ret(2).output)

C1_Witness ==
    /\ Returned(1) /\ Returned(2)
    /\ Ret(1).ok /\ Ret(2).ok
    /\ Len(dbs[1].accounts) = 1
    /\ Cardinality(DOMAIN Unwrap(engine).state) = 2
    /\ Ret(1).commitment.pre_state_root # Ret(1).commitment.post_state_root
    /\ Ret(1).commitment.commitment = Ret(2).commitment.commitment

\* C2: when execute returns Ok((output, commitment)), the Commitment holds the
\* hash of the Input, the state root of the Input's pre-state, the hash of the
\* returned Output, the state root of its post-state and the binding of the two
\* hashes; it equals from_execution(input, output) and verifies against them.
C2_CommitmentAssembly ==
    \A s \in StoreIds :
        (Returned(s) /\ Ret(s).ok) =>
            LET c == Ret(s).commitment
                o == Ret(s).output
            IN  /\ c.input_hash = ExecutionInput_hash(InputOf(s))
                /\ c.pre_state_root = compute_state_root(dbs[s])
                /\ c.output_hash = ExecutionOutput_hash(o)
                /\ c.post_state_root = compute_state_root(o.post_state)
                /\ c.commitment = compute_commitment(c.input_hash, c.output_hash)
                /\ c = from_execution(InputOf(s), o)
                /\ verify(c, ExecutionInput_hash(InputOf(s)), ExecutionOutput_hash(o))

C2_Witness ==
    /\ Returned(1) /\ Ret(1).ok
    /\ Ret(1).output.status = "Success"
    /\ Ret(1).commitment.pre_state_root # Ret(1).commitment.post_state_root
    /\ Ret(1).output.created_address # None

\* What simulate returned for Input s.
Simulated(s) == sims[s] # None
Sim(s) == Unwrap(sims[s])

\* Every Output execute or simulate has returned.
ReturnedOutputs ==
    {Ret(s).output : s \in {t \in StoreIds : Returned(t) /\ Ret(t).ok}}
        \cup {Sim(s).output : s \in {t \in StoreIds : Simulated(t) /\ Sim(t).ok}}

\* C11: every returned Output whose status is Revert or Halt has no logs, no
\* refund and no created address, and a Halt Output has no return data; an
\* Output that carries logs, a refund or a created address is a Success.
C11_RevertHaltCarryNothing ==
    \A o \in ReturnedOutputs :
        /\ o.status \in {"Revert", "Halt"} =>
              /\ o.logs = <<>>
              /\ o.gas_refunded = 0
              /\ o.created_address = None
        /\ o.status = "Halt" => o.return_data = <<>>
        /\ (o.logs # <<>> \/ o.gas_refunded # 0 \/ o.created_address # None) =>
              o.status = "Success"

C11_Witness ==
    /\ Returned(1) /\ Ret(1).ok /\ Simulated(1) /\ Sim(1).ok
    /\ Ret(1).output.status = "Revert"
    /\ Ret(1).output.return_data # <<>>
    /\ Sim(1).output.status = "Revert"
    /\ Ret(1).output.gas_used > 0

\* C12: every Output simulate returns holds the Input's pre-state as its
\* post-state, and its post-state root is the Input's pre-state root, also for
\* Inputs whose execution changes the state.
C12_SimulateLeavesState ==
    \A s \in StoreIds :
        (Simulated(s) /\ Sim(s).ok) =>
            /\ Sim(s).output.post_state = InputOf(s).pre_state
            /\ ExecutionOutput_post_state_root(Sim(s).output)
                  = ExecutionInput_pre_state_root(InputOf(s))

C12_Witness ==
    /\ Simulated(1) /\ Sim(1).ok
    /\ Returned(1) /\ Ret(1).ok
    /\ Ret(1).commitment.post_state_root # Ret(1).commitment.pre_state_root
    /\ Cardinality(DOMAIN Unwrap(engine).state) = 2
    /\ ExecutionOutput_post_state_root(Sim(1).output) = Ret(1).commitment.pre_state_root

\* Input s is the transfer scenario: sender 1 with balance 10^18 wei, no
\* account at receiver 2, a transfer of 10^17 wei with the gas limit 21000.
TransferScenario(s) ==
    /\ envs[s].tx = TxInput_transfer(1, 2, TransferAmount)
    /\ envs[s].tx.gas_limit = 21000
    /\ envs[s].block = BlockEnv_default
    /\ account_exists(dbs[s], 1)
    /\ Unwrap(get_account(dbs[s], 1)) = new_with_balance(InitialBalance)
    /\ ~account_exists(dbs[s], 2)

\* C13: in the transfer scenario execute returns a Success Output with
\* gas_used = 21000, the post-state holds the receiver with balance exactly
\* 10^17 wei, and the Commitment's pre- and post-state roots differ.
C13_TransferEndToEnd ==
    \A s \in StoreIds :
        (TransferScenario(s) /\ Returned(s)) =>
            /\ Ret(s).ok
            /\ Ret(s).output.status = "Success"
            /\ Ret(s).output.gas_used = 21000
            /\ account_exists(Ret(s).output.post_state, 2)
            /\ Unwrap(get_account(Ret(s).output.post_state, 2)).balance = TransferAmount
            /\ Ret(s).commitment.pre_state_root # Ret(s).commitment.post_state_root

C13_Witness ==
    /\ TransferScenario(1) /\ Returned(1) /\ Ret(1).ok
    /\ Unwrap(get_account(Ret(1).output.post_state, 2)).balance = TransferAmount
    /\ Unwrap(get_account(Ret(1).output.post_state, 1)).nonce = 1

\* Input s is a creation from a deployer that can pay for it.
FundedCreation(s) ==
    LET tx == envs[s].tx
    IN  /\ is_create(tx)
        /\ account_exists(dbs[s], tx.caller)
        /\ Unwrap(get_account(dbs[s], tx.caller)).code = <<>>
        /\ Unwrap(get_account(dbs[s], tx.caller)).balance
              >= tx.gas_limit * (tx.gas_price \div Gwei) + tx.value

\* The engine reports a deployment for Input s: Success with the runtime bytes
\* and the created address, whose account (without code and with nonce 0
\* before, if it existed) now holds those bytes as its code.
EngineDeployed(s) ==
    /\ engine # None
    /\ Unwrap(engine).ok
    /\ LET r == Unwrap(engine)
       IN  /\ r.result.kind = "Success"
           /\ r.result.output_kind = "Create"
           /\ r.result.data # <<>>
           /\ r.result.address # None
           /\ LET a == Unwrap(r.result.address)
              IN  /\ a # envs[s].tx.caller
                  /\ envs[s].tx.caller \in DOMAIN r.state
                  /\ a \in DOMAIN r.state
                  /\ r.state[a].info.code = Some(r.result.data)
                  /\ r.state[a].info.code_hash = keccak256(r.result.data)
                  /\ r.state[a].info.nonce = 1
                  /\ account_exists(dbs[s], a) =>
                        /\ Unwrap(get_account(dbs[s], a)).code = <<>>
                        /\ Unwrap(get_account(dbs[s], a)).nonce = 0

\* C14: when execute returns a Success Output for a creation from a funded
\* deployer whose init code returns runtime bytes, created_address is set and
\* the post-state holds an account there with non-empty code, whatever other
\* accounts the pre-state holds.
C14_CreationEndToEnd ==
    \A s \in StoreIds :
        (FundedCreation(s) /\ EngineDeployed(s) /\ Returned(s) /\ Ret(s).ok
            /\ Ret(s).output.status = "Success") =>
            LET o == Ret(s).output
            IN  /\ o.created_address # None
                /\ account_exists(o.post_state, Unwrap(o.created_address))
                /\ Unwrap(get_account(o.post_state, Unwrap(o.created_address))).code # <<>>

\* The account at address a of the post-state execute returned for Input s.
PostAccount(s, a) == Unwrap(get_account(Ret(s).output.post_state, a))

\* C15: for every address the engine reports, the post-state account holds the
\* reported balance and nonce, and every reported slot reads as its reported
\* value (absent when zero); an address new to the store gets the reported
\* balance and nonce and, if reported, the code and its hash.
C15_FullReplaceOnTouch ==
    \A s \in StoreIds :
        (Returned(s) /\ Ret(s).ok) =>
            \A a \in DOMAIN Unwrap(engine).state :
                LET e == Unwrap(engine).state[a]
                IN  /\ account_exists(Ret(s).output.post_state, a)
                    /\ PostAccount(s, a).balance = e.info.balance
                    /\ PostAccount(s, a).nonce = e.info.nonce
                    /\ \A k \in DOMAIN e.storage :
                          /\ get_storage(PostAccount(s, a), k) = e.storage[k]
                          /\ e.storage[k] = 0 => ~BTreeContains(PostAccount(s, a).storage, k)
                    /\ ~account_exists(dbs[s], a) =>
                          /\ e.info.code # None =>
                                /\ PostAccount(s, a).code = Unwrap(e.info.code)
                                /\ PostAccount(s, a).code_hash = e.info.code_hash
                          /\ e.info.code = None =>
                                /\ PostAccount(s, a).code = <<>>
                                /\ PostAccount(s, a).code_hash = KECCAK_EMPTY

C15_Witness ==
    /\ Returned(1) /\ Ret(1).ok
    /\ DOMAIN Unwrap(engine).state = {1, 2}
    /\ account_exists(dbs[1], 1) /\ ~account_exists(dbs[1], 2)
    /\ Unwrap(get_account(dbs[1], 1)).balance = 2
    /\ BTreeContains(Unwrap(get_account(dbs[1], 1)).storage, 1)
    /\ PostAccount(1, 1).balance = 1
    /\ ~BTreeContains(PostAccount(1, 1).storage, 1)
    /\ PostAccount(1, 2).code # <<>>

\* C16: every account of the pre-state that the engine does not report is, in
\* the post-state execute returns, the record the pre-state holds.
C16_UntouchedCarriedOver ==
    \A s \in StoreIds :
        (Returned(s) /\ Ret(s).ok) =>
            \A a \in BTreeKeys(dbs[s].accounts) \ DOMAIN Unwrap(engine).state :
                /\ account_exists(Ret(s).output.post_state, a)
                /\ get_account(Ret(s).output.post_state, a) = get_account(dbs[s], a)

C16_Witness ==
    /\ Returned(1) /\ Ret(1).ok
    /\ BTreeKeys(dbs[1].accounts) = {1, 2}
    /\ DOMAIN Unwrap(engine).state = {2}
    /\ get_account(Ret(1).output.post_state, 2) # get_account(dbs[1], 2)
    /\ PostAccount(1, 1).storage # <<>>
    /\ PostAccount(1, 1) = Unwrap(get_account(dbs[1], 1))

\* The engine invocation failed.
EngineFailed == engine # None /\ ~Unwrap(engine).ok

\* What a call returns when the engine invocation failed: the typed error with
\* the engine's diagnostic, and neither an Output nor a Commitment.
HaltedError(r) ==
    /\ ~r.ok
    /\ r.err = <<"ExecutionHalted", Unwrap(engine).err>>
    /\ DOMAIN r = {"ok", "err"}

\* C17: when the engine invocation fails, execute and simulate return
\* Err(ExecutionHalted(diagnostic)) with no Output and no Commitment; the call
\* ends there, having invoked the engine once.
C17_EngineFailureFatal ==
    /\ calls <= 1
    /\ EngineFailed =>
          /\ \A s \in StoreIds : Returned(s) => HaltedError(Ret(s))
          /\ \A s \in StoreIds : Simulated(s) => HaltedError(Sim(s))
          /\ out = None
          /\ pc \in {"idle", "evm_built", "sim_evm_built", "panicked"}
          /\ pc = "idle" => calls = 1

C17_Witness ==
    /\ EngineFailed
    /\ \A s \in StoreIds : Returned(s) /\ Simulated(s)
    /\ HaltedError(Ret(1)) /\ HaltedError(Sim(2))
    /\ calls = 1

\* The running execute call met a failed serialization in hash_struct and the
\* process was aborted there.
SerializationAborted == pc = "panicked"

\* C18: a failed serialization while execute computes a hash or a root makes
\* execute return Err(SerializationError(..)); the process is not aborted.
C18_SerializationTypedError ==
    SerializationAborted =>
        /\ Returned(cur)
        /\ ~Ret(cur).ok
        /\ Ret(cur).err[1] = "SerializationError"

\* execute returned Ok to the guest.
GuestOk == gres # None /\ Unwrap(gres).ok

\* C19: the journal holds at most one value, and only the Commitment execute
\* returned with Ok; a run that ended normally has published it, a run in which
\* execute failed or aborted has ended aborted with nothing published.
C19_GuestFailStop ==
    /\ Len(journal) <= 1
    /\ journal # <<>> => (GuestOk /\ journal = <<Unwrap(gres).commitment>>)
    /\ gpc = "done" => (GuestOk /\ Len(journal) = 1)
    /\ gpc = "aborted" => (~GuestOk /\ journal = <<>>)
    /\ (gres # None /\ ~Unwrap(gres).ok) =>
          (journal = <<>> /\ gpc \in {"executed", "aborted"})
    /\ gpc \in {"start", "read"} => (gres = None /\ journal = <<>>)

C19_Witness ==
    /\ gpc = "done"
    /\ GuestOk
    /\ journal = <<Unwrap(gres).commitment>>
    /\ Unwrap(gres).commitment.pre_state_root # Unwrap(gres).commitment.post_state_root

C19_WitnessAbort ==
    /\ gpc = "aborted"
    /\ gres # None /\ ~Unwrap(gres).ok
    /\ journal = <<>>

\* The accounts and block hashes of the store that is read, as mappings.
ReadAccounts == BTreeAsMap(dbs[1].accounts)
ReadBlockHashes == BTreeAsMap(dbs[1].block_hashes)

\* C20: every read returns Ok. basic gives the record's balance, nonce and code
\* hash, or absent; storage gives the stored value, or zero when the account or
\* the slot is missing; block_hash gives the recorded hash, or the zero hash;
\* code_by_hash gives empty code for the empty-code hash and for a hash no
\* account holds.
C20_ReadsNeverFail ==
    rd # None =>
        LET r == Unwrap(rd)
            v == r.result.value
        IN  /\ r.result.ok
            /\ r.op = "basic" =>
                  IF r.address \in DOMAIN ReadAccounts
                  THEN /\ v # None
                       /\ Unwrap(v).balance = ReadAccounts[r.address].balance
                       /\ Unwrap(v).nonce = ReadAccounts[r.address].nonce
                       /\ Unwrap(v).code_hash = ReadAccounts[r.address].code_hash
                  ELSE v = None
            /\ r.op = "storage" =>
                  IF /\ r.address \in DOMAIN ReadAccounts
                     /\ r.slot \in BTreeKeys(ReadAccounts[r.address].storage)
                  THEN v = BTreeAsMap(ReadAccounts[r.address].storage)[r.slot]
                  ELSE v = 0
            /\ r.op = "block_hash" =>
                  IF r.number \in DOMAIN ReadBlockHashes
                  THEN v = ReadBlockHashes[r.number]
                  ELSE v = Hash_ZERO
            /\ (/\ r.op = "code_by_hash"
                /\ \/ r.code_hash = KECCAK_EMPTY
                   \/ \A a \in DOMAIN ReadAccounts :
                         ReadAccounts[a].code_hash # r.code_hash) =>
                  v = Bytecode_default

C20_Witness ==
    /\ rd # None
    /\ Unwrap(rd).op = "storage"
    /\ Unwrap(rd).address \in DOMAIN ReadAccounts
    /\ ReadAccounts[Unwrap(rd).address].storage # <<>>
    /\ Unwrap(rd).slot \notin BTreeKeys(ReadAccounts[Unwrap(rd).address].storage)
    /\ Unwrap(rd).result.ok
    /\ Unwrap(rd).result.value = 0

\* ------------------------------------------------------------ merge calls
\* a.merge(&b) on two distinct stores (the borrow rules exclude a.merge(&a));
\* mrg keeps both stores as they were when the call was made.
MergeCall ==
    \E s \in StoreIds, o \in StoreIds :
        /\ s # o
        /\ mrg' = Some([self |-> s, other |-> o, before |-> dbs])
        /\ dbs' = [dbs EXCEPT ![s] = merge(dbs[s], dbs[o])]
        /\ UNCHANGED <<lastIns, accountVars, commitVars, gasVars, inputVars, execVars,
                       guestVars, readVars, builderVars>>

MergeInit ==
    /\ dbs \in [StoreIds -> ReadStores]
    /\ lastIns = [s \in StoreIds |-> 0]
    /\ MergeIdle /\ BuilderIdle
    /\ AccountIdle /\ CommitIdle /\ GasIdle /\ InputIdle /\ ExecIdle /\ GuestIdle /\ ReadIdle

MergeNext == MergeCall

SpecMerge == MergeInit /\ [][MergeNext]_vars

\* The operands and results of the latest merge call.
Merged == mrg # None
MergeSelfBefore == Unwrap(mrg).before[Unwrap(mrg).self]
MergeOtherBefore == Unwrap(mrg).before[Unwrap(mrg).other]
MergeSelfAfter == dbs[Unwrap(mrg).self]
MergeOtherAfter == dbs[Unwrap(mrg).other]

\* C21: after a.merge(b), every address of b maps in a to exactly b's record
\* (all five fields), every address of a that b lacks keeps a's record, a's
\* address set is the union of both, and b is unchanged.
C21_MergeWholeRecord ==
    Merged =>
        /\ \A k \in BTreeKeys(MergeOtherBefore.accounts) :
               get_account(MergeSelfAfter, k) = get_account(MergeOtherBefore, k)
        /\ \A k \in BTreeKeys(MergeSelfBefore.accounts) \ BTreeKeys(MergeOtherBefore.accounts) :
               get_account(MergeSelfAfter, k) = get_account(MergeSelfBefore, k)
        /\ BTreeKeys(MergeSelfAfter.accounts)
               = BTreeKeys(MergeSelfBefore.accounts) \cup BTreeKeys(MergeOtherBefore.accounts)
        /\ MergeOtherAfter = MergeOtherBefore

\* A merge with a key collision on records that differ in every field, and an
\* address only the receiving store has.
C21_Witness ==
    /\ Merged
    /\ \E k \in BTreeKeys(MergeOtherBefore.accounts) :
           /\ BTreeContains(MergeSelfBefore.accounts, k)
           /\ LET x == Unwrap(get_account(MergeSelfBefore, k))
                  y == Unwrap(get_account(MergeOtherBefore, k))
              IN  /\ x.balance # y.balance /\ x.nonce # y.nonce /\ x.code # y.code
                  /\ x.code_hash # y.code_hash /\ x.storage # y.storage
    /\ BTreeKeys(MergeSelfBefore.accounts) \ BTreeKeys(MergeOtherBefore.accounts) # {}
    /\ MergeOtherBefore.block_hashes # MergeSelfBefore.block_hashes
\* ------------------------------------------------------- ExecutionBuilder
BlockEnv_testnet == [BlockEnv_default EXCEPT !.chain_id = 31337]

ExecutionBuilder_new ==
    [block |-> BlockEnv_default, tx |-> TxInput_default, state |-> InMemoryDB_new]

with_block(b, block) == [b EXCEPT !.block = block]

with_tx(b, tx) == [b EXCEPT !.tx = tx]

\* A setter that adds the given accounts to the state set so far.
with_state_merging(b, state) == [b EXCEPT !.state = merge(b.state, state)]

with_state(b, state) == [b EXCEPT !.state = state]

ExecutionBuilder_build(b) == ExecutionInput_new(b.block, b.tx, b.state)

ExecutionBuilder_execute(b) == execute(ExecutionBuilder_build(b))

\* The arguments callers hand to the setters.
BuilderBlocks == {BlockEnv_default, BlockEnv_testnet}
BuilderTxs == {TxInput_transfer(1, 2, 1), TxInput_create(1, <<96>>, 0)}
BuilderStates == ReadStores

BuilderWithBlock ==
    \E block \in BuilderBlocks :
        /\ bres = None
        /\ bld' = with_block(bld, block)
        /\ bargs' = [bargs EXCEPT !.block = Some(block)]
        /\ UNCHANGED <<bres, accountVars, storeVars, commitVars, gasVars, inputVars,
                       execVars, guestVars, readVars, mergeVars>>

BuilderWithTx ==
    \E tx \in BuilderTxs :
        /\ bres = None
        /\ bld' = with_tx(bld, tx)
        /\ bargs' = [bargs EXCEPT !.tx = Some(tx)]
        /\ UNCHANGED <<bres, accountVars, storeVars, commitVars, gasVars, inputVars,
                       execVars, guestVars, readVars, mergeVars>>

BuilderWithState ==
    \E state \in BuilderStates :
        /\ bres = None
        /\ bld' = with_state(bld, state)
        /\ bargs' = [bargs EXCEPT !.state = Some(state)]
        /\ UNCHANGED <<bres, accountVars, storeVars, commitVars, gasVars, inputVars,
                       execVars, guestVars, readVars, mergeVars>>

\* execute consumes the builder: no setter runs after it.
BuilderExecute ==
    /\ bres = None
    /\ bres' = Some(ExecutionBuilder_execute(bld))
    /\ UNCHANGED <<bld, bargs, accountVars, storeVars, commitVars, gasVars, inputVars,
                   execVars, guestVars, readVars, mergeVars>>

BuilderInit ==
    /\ bld = ExecutionBuilder_new
    /\ bargs = [block |-> None, tx |-> None, state |-> None]
    /\ bres = None
    /\ MergeIdle
    /\ AccountIdle /\ StoreIdle /\ CommitIdle /\ GasIdle /\ InputIdle /\ ExecIdle
    /\ GuestIdle /\ ReadIdle

BuilderNext ==
    \/ BuilderWithBlock
    \/ BuilderWithTx
    \/ BuilderWithState
    \/ BuilderExecute

SpecBuilder == BuilderInit /\ [][BuilderNext]_vars
\* The Input the setter calls made so far describe: for each part the argument
\* of its latest setter call, or the default when the setter was never called.
BuilderBlock == IF bargs.block = None THEN BlockEnv_default ELSE Unwrap(bargs.block)
BuilderTx == IF bargs.tx = None THEN TxInput_default ELSE Unwrap(bargs.tx)
BuilderState == IF bargs.state = None THEN InMemoryDB_new ELSE Unwrap(bargs.state)
BuilderInput == ExecutionInput_new(BuilderBlock, BuilderTx, BuilderState)

\* C22: whatever setters were called on ExecutionBuilder::new(), in whatever
\* order and however often, ExecutionBuilder::execute ends exactly as
\* ShadowExecutor::execute(ExecutionInput::new(b, t, s)) does, b, t and s being
\* the latest arguments of the setters (defaults for the unset parts).
C22_BuilderNoSemantics ==
    bres # None => Unwrap(bres) = execute(BuilderInput)

\* The builder returned an Output after all three setters were called with
\* non-default arguments.
C22_Witness ==
    /\ bres # None
    /\ \E r \in Unwrap(bres) : r.kind = "return" /\ r.ok
    /\ bargs.block = Some(BlockEnv_testnet)
    /\ bargs.tx # None
    /\ bargs.state # None /\ Unwrap(bargs.state).accounts # <<>>
    /\ Unwrap(bargs.state).block_hashes # <<>>
\* ------------------------------------------------- the steps of execute
\* Where an execute call stands once it has invoked the engine.
AfterEngine == pc \in {"transacted", "reconciled", "output"}
\* A step in which the engine is invoked.
EngineStep == calls' = calls + 1
\* A step of an execute call that returns to its caller.
ExecuteReturns == rets'[cur] # rets[cur]

StepOrderState ==
    /\ calls <= 1
    /\ pc = "evm_built" => calls = 0
    /\ AfterEngine =>
           /\ calls = 1
           /\ engine # None /\ Unwrap(engine).ok
           /\ ih = ExecutionInput_hash(InputOf(cur))
           /\ psr = ExecutionInput_pre_state_root(InputOf(cur))
    /\ pc = "transacted" => post = InputOf(cur).pre_state
    /\ pc \in {"reconciled", "output"} =>
           post \in apply_state_changes(InputOf(cur).pre_state, Unwrap(engine))
    /\ out # None => pc \in {"output", "panicked"} /\ Unwrap(out).post_state = post

StepOrderAction ==
    /\ (EngineStep /\ pc = "evm_built") =>
           /\ ih = ExecutionInput_hash(InputOf(cur)) /\ ih' = ih
           /\ psr = ExecutionInput_pre_state_root(InputOf(cur)) /\ psr' = psr
    /\ EngineStep => dbs' = dbs /\ post' \in {post, InputOf(cur).pre_state}
    /\ (post' # post /\ pc' = "reconciled") => pc = "transacted" /\ calls = 1
    /\ (out' # out /\ out' # None) => pc = "reconciled"
    /\ ExecuteReturns =>
           /\ calls' = 1
           /\ Unwrap(rets'[cur]).ok =>
                  /\ pc = "output"
                  /\ Unwrap(rets'[cur]).output = Unwrap(out)
                  /\ Unwrap(rets'[cur]).commitment.output_hash
                         = ExecutionOutput_hash(Unwrap(out))
                  /\ Unwrap(rets'[cur]).commitment.input_hash = ih

\* C23: in every execute call the input hash and the pre-state root are
\* computed before the engine is invoked, the engine is invoked exactly once,
\* the store it reads is not modified while it runs, reconciliation starts only
\* after the engine call has returned, the Output is built after reconciliation,
\* and the output hash and the Commitment are computed last.
C23_StepOrdering == [](StepOrderState) /\ [][StepOrderAction]_vars

\* An execute call went through all its steps and returned an Output whose
\* post-state differs from the pre-state.
C23_Witness ==
    /\ pc = "idle" /\ calls = 1
    /\ sims[1] = None
    /\ \E s \in StoreIds :
           /\ cur = s /\ rets[s] # None /\ Unwrap(rets[s]).ok
           /\ Unwrap(rets[s]).output.post_state # dbs[s]
           /\ Unwrap(rets[s]).commitment.input_hash = ExecutionInput_hash(InputOf(s))
\* ------------------------------------------------- outcome classification
\* What the engine reported for the Inputs of this run.
EngineResult == Unwrap(engine).result
EngineCreated ==
    IF EngineResult.output_kind = "Create" THEN EngineResult.address ELSE None

\* C24: the Output's status is the engine result's class; on Success its logs
\* are the engine's logs in the same order with the same emitter, topics and
\* data, gas_used and gas_refunded are the engine's, and created_address is set
\* exactly when the engine reports a created address; on Revert and Halt no log
\* is copied.
C24_OutcomeClassification ==
    \A o \in ReturnedOutputs :
        /\ o.status = EngineResult.kind
        /\ o.status \in {"Success", "Revert", "Halt"}
        /\ o.status = "Success" =>
              /\ Len(o.logs) = Len(EngineResult.logs)
              /\ \A i \in 1..Len(o.logs) :
                     /\ o.logs[i].address = EngineResult.logs[i].address
                     /\ o.logs[i].topics = EngineResult.logs[i].topics
                     /\ o.logs[i].data = EngineResult.logs[i].data
              /\ o.gas_used = EngineResult.gas_used
              /\ o.gas_refunded = EngineResult.gas_refunded
              /\ o.created_address = EngineCreated
        /\ o.status \in {"Revert", "Halt"} => o.logs = <<>>

\* execute returned a Success Output carrying two different logs and a refund.
C24_Witness ==
    /\ Returned(1) /\ Ret(1).ok
    /\ Ret(1).output.status = "Success"
    /\ Len(Ret(1).output.logs) = 2
    /\ Ret(1).output.logs[1] # Ret(1).output.logs[2]
    /\ Ret(1).output.gas_refunded > 0

\* C25: on the same Input simulate returns an error exactly when execute does,
\* and otherwise the two Outputs agree on status, return data, gas_used,
\* gas_refunded, logs and created_address; simulate's post_state is the
\* pre-state, execute's the reconciled state.
C25_SimulateAgreesWithExecute ==
    \A s \in StoreIds :
        (Returned(s) /\ Simulated(s)) =>
            /\ Sim(s).ok = Ret(s).ok
            /\ ~Ret(s).ok => Sim(s).err = Ret(s).err
            /\ Ret(s).ok =>
                  /\ Sim(s).output.status = Ret(s).output.status
                  /\ Sim(s).output.return_data = Ret(s).output.return_data
                  /\ Sim(s).output.gas_used = Ret(s).output.gas_used
                  /\ Sim(s).output.gas_refunded = Ret(s).output.gas_refunded
                  /\ Sim(s).output.logs = Ret(s).output.logs
                  /\ Sim(s).output.created_address = Ret(s).output.created_address
                  /\ Sim(s).output.post_state = InputOf(s).pre_state
                  /\ Ret(s).output.post_state
                         \in apply_state_changes(InputOf(s).pre_state, Unwrap(engine))

\* Both calls returned an Output for a refunding call with logs, and the
\* post-states differ.
C25_Witness ==
    /\ Returned(2) /\ Simulated(2) /\ Ret(2).ok /\ Sim(2).ok
    /\ Sim(2).output.logs # <<>>
    /\ Sim(2).output.gas_refunded > 0
    /\ Sim(2).output.return_data # <<>>
    /\ Sim(2).output.post_state # Ret(2).output.post_state
\* --------------------------------------------------- reconciliation cases
\* The accounts the engine reported for the Inputs of this run.
EngineState == Unwrap(engine).state
EngineTouched == DOMAIN EngineState

\* C26: when the engine reports a touched account that already exists in the
\* pre-state, the post-state keeps its code and code hash if no code is
\* reported for it, and holds the reported code and its hash if code is
\* reported.
C26_ExistingAccountCode ==
    \A s \in StoreIds :
        (Returned(s) /\ Ret(s).ok) =>
            \A a \in EngineTouched :
                account_exists(InputOf(s).pre_state, a) =>
                    LET before == Unwrap(get_account(InputOf(s).pre_state, a))
                        info == EngineState[a].info
                    IN  IF info.code = None
                        THEN /\ PostAccount(s, a).code = before.code
                             /\ PostAccount(s, a).code_hash = before.code_hash
                        ELSE /\ PostAccount(s, a).code = Unwrap(info.code)
                             /\ PostAccount(s, a).code_hash = info.code_hash
\* C27: execute reconciles the engine-reported accounts into the post-state
\* whatever the outcome class: for Revert and Halt, as for Success, the
\* Output's post-state is the pre-state with every reported account
\* overwritten.
C27_ReconcileEveryOutcome ==
    \A s \in StoreIds :
        (Returned(s) /\ Ret(s).ok) =>
            /\ Ret(s).output.post_state
                   \in apply_state_changes(InputOf(s).pre_state, Unwrap(engine))
            /\ \A a \in EngineTouched :
                   /\ account_exists(Ret(s).output.post_state, a)
                   /\ PostAccount(s, a).balance = EngineState[a].info.balance
                   /\ PostAccount(s, a).nonce = EngineState[a].info.nonce
            /\ EngineTouched = {} => Ret(s).output.post_state = InputOf(s).pre_state

\* execute returned a Revert or Halt Output whose post-state is not the
\* pre-state: the engine reported an account the pre-state lacks.
C27_Witness ==
    /\ Returned(1) /\ Ret(1).ok
    /\ Ret(1).output.status \in {"Revert", "Halt"}
    /\ Ret(1).output.post_state # InputOf(1).pre_state
    /\ \E a \in EngineTouched : ~account_exists(InputOf(1).pre_state, a)
    /\ \E a \in EngineTouched : account_exists(InputOf(1).pre_state, a)
\* ------------------------------------- execute over destroyed accounts
\* Accounts as the engine reports them, with the status mark it attaches: one
\* destroyed and left empty, one touched and keeping a balance.
ReconcileAccounts ==
    {[info |-> [balance |-> 0, nonce |-> 0, code_hash |-> KECCAK_EMPTY, code |-> None],
      storage |-> (1 :> 0), status |-> "SelfDestructed"],
     [info |-> [balance |-> 2, nonce |-> 1, code_hash |-> KECCAK_EMPTY, code |-> None],
      storage |-> <<>>, status |-> "Touched"]}

ReconcileResults ==
    {[ok |-> TRUE, err |-> "", result |-> r, state |-> st] :
        r \in {x \in EngineExecutionResults(BaseEnv.tx) : x.logs = <<>>}
                  \cup EngineFailures(BaseEnv.tx),
        st \in UNION {[T -> ReconcileAccounts] : T \in SUBSET Addresses}}

\* One execute call on an Input whose pre-state may record block hashes.
ReconcileExecute ==
    \E s \in StoreIds :
        /\ pc = "idle"
        /\ rets[s] = None
        /\ \E r \in IF engine = None THEN ReconcileResults ELSE {Unwrap(engine)} :
               /\ engine' = Some(r)
               /\ \E o \in execute_with(InputOf(s), r) :
                      rets' = [rets EXCEPT ![s] =
                                  Some([ok |-> TRUE, output |-> o.output,
                                        commitment |-> o.commitment])]
        /\ cur' = s
        /\ UNCHANGED <<pc, ih, psr, post, out, sims, calls>>
        /\ UNCHANGED <<accountVars, storeVars, commitVars, gasVars, inputVars, guestVars,
                       readVars, mergeVars, builderVars>>

ReconcileInit ==
    /\ \E d \in ReadStores : dbs = [s \in StoreIds |-> d]
    /\ lastIns = [s \in StoreIds |-> 0]
    /\ InputIdle /\ ExecIdle
    /\ AccountIdle /\ CommitIdle /\ GasIdle /\ GuestIdle /\ ReadIdle /\ MergeIdle
    /\ BuilderIdle

ReconcileNext == ReconcileExecute

SpecReconcile == ReconcileInit /\ [][ReconcileNext]_vars

\* C28: when execute returns Ok, every address with an account in the
\* pre-state has one in the post-state (also when the engine marks the account
\* destroyed or it becomes empty), every address the engine reports has an
\* account in the post-state, and the post-state's block-hash table is the
\* pre-state's.
C28_AccountsNeverRemoved ==
    \A s \in StoreIds :
        (Returned(s) /\ Ret(s).ok) =>
            /\ BTreeKeys(InputOf(s).pre_state.accounts)
                   \subseteq BTreeKeys(Ret(s).output.post_state.accounts)
            /\ EngineTouched \subseteq BTreeKeys(Ret(s).output.post_state.accounts)
            /\ Ret(s).output.post_state.block_hashes = InputOf(s).pre_state.block_hashes

\* execute returned Ok for a pre-state with a recorded block hash and an
\* account that the engine reports destroyed and that is empty afterwards, and
\* the engine reported an address the pre-state lacks.
C28_Witness ==
    /\ Returned(1) /\ Ret(1).ok
    /\ InputOf(1).pre_state.block_hashes # <<>>
    /\ \E a \in EngineTouched :
           /\ account_exists(InputOf(1).pre_state, a)
           /\ EngineState[a].status = "SelfDestructed"
           /\ is_empty(PostAccount(1, a))
    /\ \E a \in EngineTouched : ~account_exists(InputOf(1).pre_state, a)
\* --------------------------------------- verify on arbitrary Commitments
\* The state roots a Commitment value may carry.
RootPool == {Hash_ZERO, KECCAK_EMPTY}

\* Commitment values as a verifier receives them: the fields are public, so
\* any combination of hashes can be stored, bound correctly or not.
CommitmentValues ==
    [input_hash : HashPool, output_hash : HashPool,
     pre_state_root : RootPool, post_state_root : RootPool,
     commitment : {compute_commitment(a, b) : a \in HashPool, b \in HashPool}]

VerifyInit ==
    /\ cargs = [input_hash |-> Hash_ZERO, output_hash |-> Hash_ZERO,
                pre_state_root |-> Hash_ZERO, post_state_root |-> Hash_ZERO]
    /\ \E c \in CommitmentValues : cmt = Some(c)
    /\ verdict = None
    /\ AccountIdle /\ StoreIdle /\ GasIdle /\ InputIdle /\ ExecIdle /\ GuestIdle
    /\ ReadIdle /\ MergeIdle /\ BuilderIdle

VerifyNext == CmtVerify

SpecVerify == VerifyInit /\ [][VerifyNext]_vars

\* The stored Commitment with its two state roots replaced.
WithRoots(c, p, q) == [c EXCEPT !.pre_state_root = p, !.post_state_root = q]

\* C29: verify(input_hash, output_hash) is true exactly when the stored
\* input_hash and output_hash equal the arguments and the stored commitment is
\* the binding of the arguments; a Commitment with the same three fields and
\* other state roots gets the same answer.
C29_VerifyIgnoresRoots ==
    verdict # None =>
        LET v == Unwrap(verdict)
            c == Unwrap(cmt)
        IN  /\ v.ok = (/\ c.input_hash = v.input_hash
                       /\ c.output_hash = v.output_hash
                       /\ c.commitment = keccak256(<<v.input_hash, v.output_hash>>))
            /\ \A p \in RootPool, q \in RootPool :
                   verify(WithRoots(c, p, q), v.input_hash, v.output_hash) = v.ok

\* A Commitment without state roots verified, and so does the same Commitment
\* with roots set.
C29_Witness ==
    /\ verdict # None /\ Unwrap(verdict).ok
    /\ Unwrap(cmt).pre_state_root = Hash_ZERO
    /\ Unwrap(cmt).post_state_root = Hash_ZERO
    /\ Unwrap(cmt).input_hash # Unwrap(cmt).output_hash
    /\ verify(WithRoots(Unwrap(cmt), KECCAK_EMPTY, KECCAK_EMPTY),
              Unwrap(verdict).input_hash, Unwrap(verdict).output_hash)
\* ------------------------------------------- what the state root covers
\* C30: two State Stores with equal account mappings have equal state roots
\* whatever block hashes they record, insert_block_hash never changes the state
\* root, and two Inputs that differ only in the block hashes their pre-state
\* records have different input hashes.
C30_StateRootCoversAccountsOnly ==
    /\ \A s \in StoreIds, t \in StoreIds :
           dbs[s].accounts = dbs[t].accounts =>
               /\ compute_state_root(dbs[s]) = compute_state_root(dbs[t])
               /\ ExecutionInput_pre_state_root(InputOf(s))
                      = ExecutionInput_pre_state_root(InputOf(t))
    /\ \A s \in StoreIds, n \in BlockNumbers, h \in BlockHashPool :
           compute_state_root(insert_block_hash(dbs[s], n, h)) = compute_state_root(dbs[s])
    /\ \A s \in StoreIds, t \in StoreIds :
           (/\ envs[s] = envs[t]
            /\ dbs[s].accounts = dbs[t].accounts
            /\ dbs[s].block_hashes # dbs[t].block_hashes) =>
               ExecutionInput_hash(InputOf(s)) # ExecutionInput_hash(InputOf(t))

\* Two Inputs with the same block, transaction and accounts, of which only one
\* records a block hash.
C30_Witness ==
    /\ envs[1] = envs[2]
    /\ dbs[1].accounts = dbs[2].accounts /\ dbs[1].accounts # <<>>
    /\ dbs[1].block_hashes # <<>> /\ dbs[2].block_hashes = <<>>
    /\ compute_state_root(dbs[1]) = compute_state_root(dbs[2])
    /\ ExecutionInput_hash(InputOf(1)) # ExecutionInput_hash(InputOf(2))
====
